---- MODULE Spec2Model ----
(***************************************************************************)
(* A model of the Mr-Dice tool servers: the three OPTIMADE tools           *)
(* (fetch_structures_with_filter / _spg / _bandgap), the Bohrium tool      *)
(* fetch_bohrium_crystals with its helpers, and the MOFdb tool fetch_mofs  *)
(* with its helpers.                                                       *)
(*                                                                         *)
(* A Python str is a sequence of one-character strings, so that replace,   *)
(* strip, slicing, sorting, joining and hashing are computed and not       *)
(* assumed.  An argument that is None is a key the argument record does    *)
(* not have.  A float is a number of tenths (10 stands for 1.0).           *)
(***************************************************************************)
EXTENDS Integers, Sequences, FiniteSets, TLC

VARIABLES
    pc,         \* position of the request being served
    tool,       \* the tool the request calls
    args,       \* the arguments of the request: an argument that is None is no key
    clock,      \* the wall clock, in whole seconds
    loc,        \* the local variables of the handler
    tasks,      \* provider -> state of its _query_one task (spg / bandgap)
    issued,     \* provider -> number of client.get calls started for it
    acc,        \* all_files, all_providers, all_cleaned and the index of the save loop
    fs,         \* the file system: directories, record files, manifests
    wrote,      \* the paths the request being served created or wrote
    result,     \* what the tool gave its caller
    prev        \* summary of the request served before this one

vars == << pc, tool, args, clock, loc, tasks, issued, acc, fs, wrote, result, prev >>

\* ------------------------------------------------------------------ bounds

\* Size of a large backend answer: two of them exceed MAX_RETURNED_STRUCTS.
BigBatch == 60
\* Size of a large MOFdb answer: it exceeds the MOFdb cap.
BigMofBatch == 31
\* The clock runs from 0 to MaxClock seconds.
MaxClock == 1

\* ------------------------------------------------------------- Python str

Min(a, b) == IF a <= b THEN a ELSE b

Range(s) == { s[i] : i \in DOMAIN s }

\* s[:] for any n
TakeAll(s, n) == s

\* s[:n]
Take(s, n) == SubSeq(s, 1, Min(n, Len(s)))

\* d.get(k, default)
Get(d, k, default) == IF k \in DOMAIN d THEN d[k] ELSE default

\* The printable ASCII characters, code 32 first (code 96 is never used and is
\* held by a placeholder).
Printable ==
    << " ", "!", "\"", "#", "$", "%", "&", "'", "(", ")", "*", "+", ",", "-", ".", "/",
       "0", "1", "2", "3", "4", "5", "6", "7", "8", "9", ":", ";", "<", "=", ">", "?",
       "@", "A", "B", "C", "D", "E", "F", "G", "H", "I", "J", "K", "L", "M", "N", "O",
       "P", "Q", "R", "S", "T", "U", "V", "W", "X", "Y", "Z", "[", "\\", "]", "^", "_",
       "(backquote)", "a", "b", "c", "d", "e", "f", "g", "h", "i", "j", "k", "l", "m",
       "n", "o", "p", "q", "r", "s", "t", "u", "v", "w", "x", "y", "z", "{", "|", "}",
       "~" >>

OrdTable == [ c \in Range(Printable) |->
                31 + (CHOOSE i \in DOMAIN Printable : Printable[i] = c) ]

\* ord(c)
Ord(c) == OrdTable[c]

Digits == << "0", "1", "2", "3", "4", "5", "6", "7", "8", "9" >>

HexDigits == << "0", "1", "2", "3", "4", "5", "6", "7", "8", "9",
                "a", "b", "c", "d", "e", "f" >>

IsAlnum(c) == (Ord(c) >= 48 /\ Ord(c) <= 57) \/ (Ord(c) >= 65 /\ Ord(c) <= 90)
              \/ (Ord(c) >= 97 /\ Ord(c) <= 122)

RECURSIVE IntToStr(_)
\* str(n) for an int n >= 0
IntToStr(n) == IF n < 10 THEN << Digits[n + 1] >>
               ELSE IntToStr(n \div 10) \o << Digits[(n % 10) + 1] >>

\* str(x) for a float x >= 0 held in tenths
FloatToStr(t) == IntToStr(t \div 10) \o << "." >> \o IntToStr(t % 10)

RECURSIVE Concat(_)
\* the concatenation of a list of lists (v: the list, computed once)
Concat(ls) ==
    CHOOSE all \in
        { IF v = << >> THEN << >>
          ELSE IF Len(v) = 1 THEN v[1]
          ELSE Concat(SubSeq(v, 1, Len(v) \div 2))
               \o Concat(SubSeq(v, Len(v) \div 2 + 1, Len(v))) : v \in { ls } } : TRUE

\* s.replace(c, r) for a one-character c
Replace(s, c, r) == Concat([ i \in DOMAIN s |-> IF s[i] = c THEN r ELSE << s[i] >> ])

RECURSIVE LStrip(_)
LStrip(s) == IF s # << >> /\ Head(s) = " " THEN LStrip(Tail(s)) ELSE s

RECURSIVE RStrip(_)
RStrip(s) == IF s # << >> /\ s[Len(s)] = " " THEN RStrip(SubSeq(s, 1, Len(s) - 1)) ELSE s

\* The string as given, not stripped.
Unstripped(s) == s

\* s.strip()
Strip(s) == RStrip(LStrip(s))

\* sep.join(parts)
Join(sep, parts) ==
    Concat([ i \in DOMAIN parts |-> IF i = 1 THEN parts[i] ELSE sep \o parts[i] ])

RECURSIVE StrLess(_, _)
\* a < b for two str
StrLess(a, b) ==
    IF b = << >> THEN FALSE
    ELSE IF a = << >> THEN TRUE
    ELSE IF Head(a) # Head(b) THEN Ord(Head(a)) < Ord(Head(b))
    ELSE StrLess(Tail(a), Tail(b))

RECURSIVE Insert(_, _)
Insert(x, sorted) ==
    IF sorted = << >> THEN << x >>
    ELSE IF StrLess(Head(sorted), x) THEN << Head(sorted) >> \o Insert(x, Tail(sorted))
    ELSE << x >> \o sorted

\* The list in the order given.
Unsorted(l) == l

RECURSIVE Sorted(_)
\* sorted(l) for a list of str
Sorted(l) == IF l = << >> THEN << >> ELSE Insert(Head(l), Sorted(Tail(l)))

\* The non-empty pieces of s between separators c (v: s, computed once).
Split(s, c) ==
    CHOOSE pieces \in
        { Concat([ i \in DOMAIN v |->
                     IF v[i] # c /\ (i = 1 \/ v[i - 1] = c)
                     THEN << SubSeq(v, i, CHOOSE j \in i .. Len(v) :
                                             /\ j = Len(v) \/ v[j + 1] = c
                                             /\ \A k \in i .. j : v[k] # c) >>
                     ELSE << >> ]) : v \in { s } } : TRUE

\* set(l) for a list
ToSet(l) == Range(l)

\* The orders in which a set can be listed.
Perms(S) == { p \in [1..Cardinality(S) -> S] : \A x \in S : \E i \in DOMAIN p : p[i] = x }

\* The literal texts of the code (the parts of tags, of hashed strings, of file
\* names, the keys of json.dumps), each with its characters.
Text ==
    [ AND_spg |-> << " ", "A", "N", "D", " ", "s", "p", "g", "=" >>,
      bar_spg |-> << "|", "s", "p", "g", "=" >>,
      AND_bandgap |-> << " ", "A", "N", "D", " ", "b", "a", "n", "d", "g", "a", "p", "[" >>,
      bar_bg |-> << "|", "b", "g", "=" >>,
      None |-> << "N", "o", "n", "e" >>,
      el |-> << "e", "l" >>,
      sg |-> << "s", "g" >>,
      nat |-> << "n", "a", "t" >>,
      E |-> << "E" >>,
      Eg |-> << "E", "g" >>,
      bohriumcrystal |-> << "b", "o", "h", "r", "i", "u", "m", "c", "r", "y", "s", "t", "a", "l" >>,
      idx |-> << "i", "d", "x" >>,
      dot_json |-> << ".", "j", "s", "o", "n" >>,
      dot_cif |-> << ".", "c", "i", "f" >>,
      atomCountRange |-> << "a", "t", "o", "m", "C", "o", "u", "n", "t", "R", "a", "n", "g", "e" >>,
      band_gap_range |-> << "b", "a", "n", "d", "_", "g", "a", "p", "_", "r", "a", "n", "g", "e" >>,
      elements |-> << "e", "l", "e", "m", "e", "n", "t", "s" >>,
      predicted_formation_energy_range |-> << "p", "r", "e", "d", "i", "c", "t", "e", "d", "_", "f", "o", "r", "m", "a", "t", "i", "o", "n", "_", "e", "n", "e", "r", "g", "y", "_", "r", "a", "n", "g", "e" >>,
      space_symbol |-> << "s", "p", "a", "c", "e", "_", "s", "y", "m", "b", "o", "l" >>,
      bar_n_results |-> << "|", "n", "_", "r", "e", "s", "u", "l", "t", "s", "=" >>,
      bar_filters |-> << "|", "f", "i", "l", "t", "e", "r", "s", "=" >>,
      id |-> << "i", "d" >>,
      key |-> << "k", "e", "y" >>,
      vf |-> << "v", "f" >>,
      lcd |-> << "l", "c", "d" >>,
      pld |-> << "p", "l", "d" >>,
      sa_g |-> << "s", "a", "_", "g" >>,
      sa_cm3 |-> << "s", "a", "_", "c", "m", "3" >>,
      mofdb |-> << "m", "o", "f", "d", "b" >>,
      mof |-> << "m", "o", "f" >>,
      null |-> << "n", "u", "l", "l" >> ]

\* ------------------------------------------------------ hashlib, datetime

\* a * b modulo 2^16, without leaving 32 bits
MulMod(a, b) == ((((a \div 256) * b) % 65536) * 256 + (a % 256) * b) % 65536

\* The pair of a string from the pairs l and r of its two halves (x and y: l
\* and r computed once).
PolyJoin(l, r) ==
    CHOOSE pair \in { << (MulMod(x[1], y[2]) + y[1]) % 65536, MulMod(x[2], y[2]) >> :
                        x \in { l }, y \in { r } } : TRUE

RECURSIVE Poly(_, _)
\* << the polynomial of the bytes of s at m, m^Len(s) >>, both modulo 2^16 (s not
\* empty)
Poly(s, m) ==
    CHOOSE pair \in { IF Len(v) = 1 THEN << Ord(v[1]), m >>
                      ELSE PolyJoin(Poly(SubSeq(v, 1, Len(v) \div 2), m),
                                    Poly(SubSeq(v, Len(v) \div 2 + 1, Len(v)), m)) :
                        v \in { s } } : TRUE

\* A 16-bit digest of the bytes of s: h, then h * m + byte for each byte in turn.
Digest(s, m, h) ==
    CHOOSE d \in { IF v = << >> THEN h ELSE PolyJoin(<< h, 1 >>, Poly(v, m))[1] : v \in { s } } : TRUE

RECURSIVE Hex(_, _)
Hex(n, width) == IF width = 0 THEN << >>
                 ELSE Hex(n \div 16, width - 1) \o << HexDigits[(n % 16) + 1] >>

\* hashlib.sha1(s.encode("utf-8")).hexdigest(): SHA-1 itself is replaced by two
\* polynomial digests of the bytes, 32 bits in all: like SHA-1 a fixed function
\* of the bytes alone, written in lower-case hexadecimal.
hexdigest(s) == Hex(Digest(s, 31, 7), 4) \o Hex(Digest(s, 37, 11), 4)

\* hashlib.sha1(s.encode("utf-8")).hexdigest()[:8]
short_hash(s) == Take(hexdigest(s), 8)

\* datetime.now().strftime("%Y%m%d_%H%M%S") at second t of the run
strftime(t) ==
    << "2", "0", "2", "5", "0", "1", "0", "1", "_", "0", "0", "0", "0" >>
    \o (IF t < 10 THEN << "0" >> ELSE << >>) \o IntToStr(t)

\* base / name: pathlib splits the name at "/" and drops empty pieces.
PathJoin(base, name) == base \o Split(name, "/")

\* Path(): the empty path
EmptyPath == << >>

\* ------------------------------------------- OPTIMADE server: the tables

MAX_RETURNED_STRUCTS == 100

\* BASE_OUTPUT_DIR of the OPTIMADE server
OPTIMADE_BASE_OUTPUT_DIR == << << "materials_data" >> >>

\* The default provider sets, cut down to two providers.
DEFAULT_PROVIDERS == { "alexandria", "oqmd" }
DEFAULT_SPG_PROVIDERS == { "alexandria", "oqmd" }
DEFAULT_BG_PROVIDERS == { "alexandria", "oqmd" }

\* Provider -> list of base URLs.  "offline" stands for a provider whose list is
\* empty; a name that is no key ("nosuch") has no URL either.
URLS_FROM_PROVIDERS ==
    [ alexandria |-> << "https://alexandria" >>,
      oqmd       |-> << "https://oqmd" >>,
      mp         |-> << "https://mp" >>,
      offline    |-> << >> ]

\* Provider -> its space-group field; "mp" has none.
SPG_FIELDS ==
    [ alexandria |-> "_alexandria_space_group",
      oqmd       |-> "_oqmd_spacegroup",
      offline    |-> "_offline_sg" ]

\* Provider -> its band-gap field; "mp" has none.
BG_FIELDS ==
    [ alexandria |-> "_alexandria_band_gap",
      oqmd       |-> "_oqmd_band_gap",
      offline    |-> "_offline_band_gap" ]

\* utils.normalize_cfr_in_filter: it rewrites chemical_formula_reduced terms; the
\* filters of this model have none and are left as they are.
normalize_cfr_in_filter(f) == f

FILTER_TAG_MAX_LEN == 30

Sanitize(s) == [ i \in DOMAIN s |-> IF IsAlnum(s[i]) THEN s[i] ELSE "_" ]

\* utils.filter_to_tag: a short file-name-safe summary of the filter.
filter_to_tag(f) == Take(Sanitize(f), FILTER_TAG_MAX_LEN)

\* utils.get_spg_filter_map: provider -> space-group clause, for the providers of
\* `used` that have a space-group field.
get_spg_filter_map(spg_number, used) ==
    [ p \in used \cap DOMAIN SPG_FIELDS |-> << SPG_FIELDS[p], "=" >> \o IntToStr(spg_number) ]

\* utils.get_bandgap_filter_map: provider -> band-gap clause; no clause without a
\* bound.  bg holds min_bg and max_bg, each only when given.
get_bandgap_filter_map(bg, used) ==
    IF DOMAIN bg = {} THEN << >>
    ELSE [ p \in used \cap DOMAIN BG_FIELDS |->
             (IF "min_bg" \in DOMAIN bg
              THEN << BG_FIELDS[p], ">=" >> \o FloatToStr(bg.min_bg) ELSE << >>)
             \o (IF DOMAIN bg = { "min_bg", "max_bg" } THEN << " AND " >> ELSE << >>)
             \o (IF "max_bg" \in DOMAIN bg
                 THEN << BG_FIELDS[p], "<=" >> \o FloatToStr(bg.max_bg) ELSE << >>) ]

\* utils.build_provider_filters: the clause of each provider joined to the base.
build_provider_filters(base, clause_map) ==
    [ p \in DOMAIN clause_map |->
        IF base # << >>
        THEN << "(" >> \o base \o << ") AND (" >> \o clause_map[p] \o << ")" >>
        ELSE clause_map[p] ]

\* {"structures": {}}
Stub == << >>

\* An OPTIMADE answer lists, per URL that answered, the entries it gave: here the
\* provider of the URL and the number n of structures, structure j being
\* [provider, id j].
Entry(p, n) == [ provider |-> p, n |-> n ]

SavedOf(e, max_results) == 1 .. Min(e.n, max_results)

StructFile(p, j, as_cif) ==
    << p, "_" >> \o IntToStr(j) \o << ".", IF as_cif THEN "cif" ELSE "json" >>

\* utils.save_structures(results, folder, max_results, as_cif): creates the
\* folder, writes up to max_results structures of every provider of the results
\* and returns the files, the providers and the cleaned structures.
save_structures(results, folder, max_results, as_cif) ==
    [ dirs      |-> { folder },
      writes    |-> Concat([ i \in DOMAIN results |->
                      [ j \in SavedOf(results[i], max_results) |->
                          [ path |-> folder \o << StructFile(results[i].provider, j, as_cif) >>,
                            content |-> [ provider |-> results[i].provider, id |-> j ] ] ] ]),
      providers |-> [ i \in DOMAIN results |-> results[i].provider ],
      cleaned   |-> Concat([ i \in DOMAIN results |->
                      [ j \in SavedOf(results[i], max_results) |->
                          [ provider |-> results[i].provider, id |-> j ] ] ]) ]

\* ------------------------------------------------- results, file system

\* FetchResult, and how the call ended: "returned", or "raised" when the failure
\* reached the caller.
NoResult ==
    [ status |-> "none", output_dir |-> EmptyPath, cleaned_structures |-> << >>,
      n_found |-> 0, code |-> 0, message |-> "" ]

Returned(dir, cleaned, n) ==
    [ status |-> "returned", output_dir |-> dir, cleaned_structures |-> cleaned,
      n_found |-> n, code |-> 0, message |-> "" ]

\* {"output_dir": Path(), "cleaned_structures": [], "n_found": 0}
ZeroResult == Returned(EmptyPath, << >>, 0)

Raised == [ NoResult EXCEPT !.status = "raised" ]

EmptyAcc == [ idx |-> 1, files |-> << >>, providers |-> << >>, cleaned |-> << >> ]

\* The directories, the record files (path -> content) and the summary.json of
\* each directory (directory -> manifest).
EmptyFs == [ dirs |-> {}, files |-> << >>, summary |-> << >> ]

SetMax(S) == CHOOSE x \in S : \A y \in S : y <= x

\* The files after the writes [path, content] of a list, done in order: a path
\* written twice holds what was written last.
WriteAll(files, writes) ==
    LET written == { writes[i].path : i \in DOMAIN writes }
        last(p) == SetMax({ i \in DOMAIN writes : writes[i].path = p })
    IN  [ p \in DOMAIN files \cup written |->
            IF p \in written THEN writes[last(p)].content ELSE files[p] ]

Mkdir(path) == [ op |-> "mkdir", path |-> path ]
Write(path) == [ op |-> "write", path |-> path ]

\* The paths of a list of writes
Paths(writes) == [ i \in DOMAIN writes |-> writes[i].path ]

\* A save function that writes its files before it makes its directory.
StoreFilesFirst(s) ==
    /\ fs' = [ fs EXCEPT !.dirs = @ \cup s.dirs, !.files = WriteAll(@, s.writes) ]
    /\ wrote' = wrote \o [ i \in DOMAIN s.writes |-> Write(s.writes[i].path) ]
                      \o [ i \in 1 .. Cardinality(s.dirs) |-> Mkdir(loc.out_folder) ]
    /\ acc' = [ idx |-> acc.idx + 1,
                files |-> acc.files \o Paths(s.writes),
                providers |-> acc.providers \o s.providers,
                cleaned |-> acc.cleaned \o s.cleaned ]

\* What a save function did (s: the directories it made, its writes in order,
\* the providers it saw and its cleaned records) reaches the file system and is
\* added to what the request has saved so far.
Store(s) ==
    /\ fs' = [ fs EXCEPT !.dirs = @ \cup s.dirs, !.files = WriteAll(@, s.writes) ]
    /\ wrote' = wrote \o [ i \in 1 .. Cardinality(s.dirs) |-> Mkdir(loc.out_folder) ]
                      \o [ i \in DOMAIN s.writes |-> Write(s.writes[i].path) ]
    /\ acc' = [ idx |-> acc.idx + 1,
                files |-> acc.files \o Paths(s.writes),
                providers |-> acc.providers \o s.providers,
                cleaned |-> acc.cleaned \o s.cleaned ]

\* Store for a save function that is handed the records of the request: the
\* records are then as the function left them; kept is added to the locals.
StoreRecords(s, kept) ==
    /\ Store(s)
    /\ loc' = [ items |-> s.after ] @@ kept @@ loc

SummaryPath(dir) == dir \o << << "summary.json" >> >>

AllProviders == { "alexandria", "oqmd", "mp", "offline", "nosuch" }

\* ---------------------------------------------------- OPTIMADE: the tools

\* f"{x}" for an optional float
FormatOptFloat(bg, k) == IF k \in DOMAIN bg THEN FloatToStr(bg[k]) ELSE Text.None

\* The band-gap bounds among the arguments.
BgOf(a) == [ k \in DOMAIN a \cap { "min_bg", "max_bg" } |-> a[k] ]

\* `set(providers) if providers else default`
UsedProviders(a, default) ==
    IF Get(a, "providers", << >>) # << >> THEN ToSet(a.providers) ELSE default

\* What client.get can give for the providers ps (a list): an Exception, a
\* SystemExit, or an answer with some number of structures per provider.
BatchSizes == { 0, 1, BigBatch }

RECURSIVE Answers(_)
Answers(ps) ==
    IF ps = << >> THEN { << >> }
    ELSE { << Entry(Head(ps), n) >> \o rest : n \in BatchSizes, rest \in Answers(Tail(ps)) }

ClientOutcomes(ps) ==
    { [ kind |-> "exc", data |-> Stub ], [ kind |-> "exit", data |-> Stub ] }
    \cup { [ kind |-> "ok", data |-> d ] : d \in Answers(ps) }

\* No answer of the backend yet.
NoAnswer == [ kind |-> "none", data |-> Stub ]

\* A folder name without the hash.
FolderNameWithoutHash(tag, ts, short) == tag \o << "_" >> \o ts

\* f"{tag}_{ts}_{short}": the name of the output folder
FolderName(tag, ts, short) == tag \o << "_" >> \o ts \o << "_" >> \o short

\* fetch_structures_with_filter, up to the await of client.get.
fetch_structures_with_filter(a) ==
    /\ pc = "idle"
    /\ tool' = "filter"
    /\ args' = a
    /\ LET filt0 == Strip(Get(a, "filter", << >>))
           filt == normalize_cfr_in_filter(filt0)
           used_providers == UsedProviders(a, DEFAULT_PROVIDERS)
       IN  IF filt0 = << >>
           THEN /\ result' = ZeroResult
                /\ pc' = "returned"
                /\ UNCHANGED loc
           ELSE /\ \E o \in Perms({ p \in used_providers :
                                      Get(URLS_FROM_PROVIDERS, p, << >>) # << >> }) :
                      loc' = [ filt |-> filt, used |-> used_providers, order |-> o ]
                /\ pc' = "client_get"
                /\ UNCHANGED result
    /\ UNCHANGED << clock, tasks, issued, acc, fs, wrote, prev >>

\* `except Exception` alone
CaughtExceptionOnly(outcome) == outcome.kind = "exc"

\* `except (SystemExit, Exception)` of fetch_structures_with_filter
Caught(outcome) == outcome.kind \in { "exc", "exit" }

\* fetch_structures_with_filter: client.get ends; on success the folder is named.
filter_client_get(outcome) ==
    /\ pc = "client_get"
    /\ IF outcome.kind # "ok"
       THEN /\ result' = IF Caught(outcome) THEN ZeroResult ELSE Raised
            /\ pc' = "returned"
            /\ loc' = [ filt |-> loc.filt, used |-> loc.used, order |-> loc.order,
                        answer |-> outcome ]
       ELSE /\ LET tag == filter_to_tag(loc.filt)
                   ts == strftime(clock)
                   short == short_hash(loc.filt)
                   name == FolderName(tag, ts, short)
               IN  loc' = [ filt |-> loc.filt, used |-> loc.used, order |-> loc.order,
                            answer |-> outcome,
                            norm |-> << outcome.data >>, running |-> 0,
                            tag |-> tag, ts |-> ts, short |-> short,
                            hashed |-> loc.filt, name |-> name,
                            out_folder |-> PathJoin(OPTIMADE_BASE_OUTPUT_DIR, name) ]
            /\ pc' = "saving"
            /\ UNCHANGED result
    /\ UNCHANGED << tool, args, clock, tasks, issued, acc, fs, wrote, prev >>

\* The fan-out of the space-group and band-gap tools: no clause, no query; else
\* one _query_one task per entry of the per-provider filter map.
FanOut(base, used, filters) ==
    IF DOMAIN filters = {}
    THEN /\ result' = ZeroResult
         /\ pc' = "returned"
         /\ UNCHANGED << loc, tasks >>
    ELSE /\ \E o \in Perms(DOMAIN filters) :
               loc' = [ base |-> base, used |-> used, filters |-> filters, order |-> o ]
         /\ tasks' = [ p \in DOMAIN filters |->
                         [ st |-> "ready", kind |-> "none", data |-> Stub, got |-> NoAnswer,
                           rank |-> 0 ] ]
         /\ pc' = "gather"
         /\ UNCHANGED result

\* fetch_structures_with_spg, up to the await of asyncio.gather.
fetch_structures_with_spg(a) ==
    /\ pc = "idle"
    /\ tool' = "spg"
    /\ args' = a
    /\ LET base == normalize_cfr_in_filter(Strip(Get(a, "base_filter", << >>)))
           used == UsedProviders(a, DEFAULT_SPG_PROVIDERS)
           spg_map == get_spg_filter_map(a.spg_number, used)
       IN  FanOut(base, used, build_provider_filters(base, spg_map))
    /\ UNCHANGED << clock, issued, acc, fs, wrote, prev >>

\* fetch_structures_with_bandgap, up to the await of asyncio.gather.
fetch_structures_with_bandgap(a) ==
    /\ pc = "idle"
    /\ tool' = "bandgap"
    /\ args' = a
    /\ LET base == normalize_cfr_in_filter(Strip(Get(a, "base_filter", << >>)))
           used == UsedProviders(a, DEFAULT_BG_PROVIDERS)
           bg_map == get_bandgap_filter_map(BgOf(a), used)
       IN  FanOut(base, used, build_provider_filters(base, bg_map))
    /\ UNCHANGED << clock, issued, acc, fs, wrote, prev >>

\* _query_one with `except Exception` alone: a SystemExit of the client leaves the
\* task.
_query_one_except_Exception(outcome) ==
    IF outcome.kind = "exc" THEN [ kind |-> "ret", data |-> Stub ]
    ELSE IF outcome.kind = "exit" THEN [ kind |-> "exit", data |-> Stub ]
    ELSE [ kind |-> "ret", data |-> outcome.data ]

\* _query_one: how the task ends for what client.get gave.  An Exception or a
\* SystemExit of the client is caught and the stub returned.
_query_one(outcome) ==
    IF outcome.kind \in { "exc", "exit" }
    THEN [ kind |-> "ret", data |-> Stub ]
    ELSE [ kind |-> "ret", data |-> outcome.data ]

\* The place of the task that ends now among the tasks of the request, in the
\* order in which they end (1 for the first).
NextRank == Cardinality({ p \in DOMAIN tasks : tasks[p].st = "done" }) + 1

\* _query_one without its check of the URLs: client.get is always called.
query_start_without_url_check(p) ==
    /\ pc = "gather"
    /\ p \in DOMAIN tasks
    /\ tasks[p].st = "ready"
    /\ tasks' = [ tasks EXCEPT ![p].st = "inflight" ]
    /\ issued' = [ issued EXCEPT ![p] = @ + 1 ]
    /\ UNCHANGED << pc, tool, args, clock, loc, acc, fs, wrote, result, prev >>

\* _query_one starts: without a URL it returns the stub at once, else it hands
\* client.get to a worker thread.
query_start(p) ==
    /\ pc = "gather"
    /\ p \in DOMAIN tasks
    /\ tasks[p].st = "ready"
    /\ IF Get(URLS_FROM_PROVIDERS, p, << >>) = << >>
       THEN /\ tasks' = [ tasks EXCEPT ![p].st = "done", ![p].kind = "ret",
                                       ![p].rank = NextRank ]
            /\ UNCHANGED issued
       ELSE /\ tasks' = [ tasks EXCEPT ![p].st = "inflight" ]
            /\ issued' = [ issued EXCEPT ![p] = @ + 1 ]
    /\ UNCHANGED << pc, tool, args, clock, loc, acc, fs, wrote, result, prev >>

\* A task that never ends once its client.get has failed.
query_done_failure_hangs(p, outcome) ==
    /\ pc = "gather"
    /\ p \in DOMAIN tasks
    /\ tasks[p].st = "inflight"
    /\ LET r == _query_one(outcome)
       IN  tasks' = [ tasks EXCEPT ![p] = [ st |-> IF outcome.kind = "ok" THEN "done" ELSE "hung",
                                           kind |-> r.kind, data |-> r.data,
                                           got |-> outcome, rank |-> NextRank ] ]
    /\ UNCHANGED << pc, tool, args, clock, loc, issued, acc, fs, wrote, result, prev >>

\* client.get of provider p ends and its task with it.
query_done(p, outcome) ==
    /\ pc = "gather"
    /\ p \in DOMAIN tasks
    /\ tasks[p].st = "inflight"
    /\ LET r == _query_one(outcome)
       IN  tasks' = [ tasks EXCEPT ![p] = [ st |-> "done", kind |-> r.kind, data |-> r.data,
                                           got |-> outcome, rank |-> NextRank ] ]
    /\ UNCHANGED << pc, tool, args, clock, loc, issued, acc, fs, wrote, result, prev >>

\* The results of the tasks in the order in which the tasks ended.
GatherAsCompleted(order) ==
    [ i \in DOMAIN order |-> tasks[CHOOSE p \in DOMAIN tasks : tasks[p].rank = i] ]

\* The list asyncio.gather returns: the result of each awaitable, in the order of
\* the awaitables (that of filters.items()).
Gather(order) == [ i \in DOMAIN order |-> tasks[order[i]] ]

\* "Turn any exceptions into empty result dicts"
NormResults(results_list) ==
    [ i \in DOMAIN results_list |->
        IF results_list[i].kind = "exc" THEN Stub ELSE results_list[i].data ]

\* asyncio.gather(..., return_exceptions=True) ends when every task has; the
\* results are normalised and the folder named.  A SystemExit that left a task is
\* not collected by gather: it ends the call.
gather_done ==
    /\ pc = "gather"
    /\ \A p \in DOMAIN tasks : tasks[p].st = "done"
    /\ LET results_list == Gather(loc.order)
           spg == tool = "spg"
           tagged == IF spg THEN loc.base \o Text.AND_spg \o IntToStr(args.spg_number)
                     ELSE loc.base \o Text.AND_bandgap \o FormatOptFloat(BgOf(args), "min_bg")
                          \o << "," >> \o FormatOptFloat(BgOf(args), "max_bg") \o << "]" >>
           hashed == IF spg THEN loc.base \o Text.bar_spg \o IntToStr(args.spg_number)
                     ELSE loc.base \o Text.bar_bg \o FormatOptFloat(BgOf(args), "min_bg")
                          \o << ":" >> \o FormatOptFloat(BgOf(args), "max_bg")
           tag == filter_to_tag(tagged)
           ts == strftime(clock)
           short == short_hash(hashed)
           name == FolderName(tag, ts, short)
       IN  IF \E i \in DOMAIN results_list : results_list[i].kind = "exit"
           THEN /\ result' = Raised
                /\ pc' = "returned"
                /\ UNCHANGED loc
           ELSE /\ loc' = [ base |-> loc.base, used |-> loc.used, filters |-> loc.filters,
                            order |-> loc.order,
                            norm |-> NormResults(results_list), running |-> 0,
                            tag |-> tag, ts |-> ts, short |-> short,
                            hashed |-> hashed, name |-> name,
                            out_folder |-> PathJoin(OPTIMADE_BASE_OUTPUT_DIR, name) ]
                /\ pc' = "saving"
                /\ UNCHANGED result
    /\ UNCHANGED << tool, args, clock, tasks, issued, acc, fs, wrote, prev >>

\* A save loop that starts save_structures for the next result without waiting
\* for the call before it.
save_begin_without_await ==
    /\ pc = "saving"
    /\ acc.idx + loc.running <= Len(loc.norm)
    /\ loc' = [ loc EXCEPT !.running = @ + 1 ]
    /\ UNCHANGED << pc, tool, args, clock, tasks, issued, acc, fs, wrote, result, prev >>

\* The save loop hands save_structures for the next result to a worker thread
\* (the only such call of fetch_structures_with_filter): the loop awaits each
\* call, so none is running when the next starts.
save_begin ==
    /\ pc = "saving"
    /\ acc.idx + loc.running <= Len(loc.norm)
    /\ loc.running = 0
    /\ loc' = [ loc EXCEPT !.running = @ + 1 ]
    /\ UNCHANGED << pc, tool, args, clock, tasks, issued, acc, fs, wrote, result, prev >>

\* One `await to_thread.run_sync(save_structures, ...)` of the save loop ends.
save_step ==
    /\ pc = "saving"
    /\ loc.running > 0
    /\ acc.idx <= Len(loc.norm)
    /\ Store(save_structures(loc.norm[acc.idx], loc.out_folder, args.n_results,
                             args.as_format = "cif"))
    /\ loc' = [ loc EXCEPT !.running = @ - 1 ]
    /\ UNCHANGED << pc, tool, args, clock, tasks, issued, result, prev >>

OptimadeMode == [ filter |-> "raw_filter", spg |-> "space_group", bandgap |-> "band_gap" ]

\* The manifest of an OPTIMADE tool.
OptimadeManifest ==
    [ mode |-> OptimadeMode[tool],
      providers_seen |-> acc.providers,
      files |-> acc.files,
      format |-> args.as_format,
      n_results |-> args.n_results,
      n_found |-> Len(acc.cleaned) ]

\* The whole list, not cut.
Untruncated(cleaned, cap) == cleaned

\* The list a tool returns: cleaned[:MAX_RETURNED_STRUCTS]
Truncate(cleaned, cap) == Take(cleaned, cap)

\* After the save loop: summary.json is written, the list cut and returned.
optimade_finish ==
    /\ pc = "saving"
    /\ acc.idx > Len(loc.norm)
    /\ IF loc.out_folder \in fs.dirs
       THEN /\ fs' = [ fs EXCEPT !.summary = (loc.out_folder :> OptimadeManifest) @@ @ ]
            /\ wrote' = wrote \o << Write(SummaryPath(loc.out_folder)) >>
            /\ LET cleaned == Truncate(acc.cleaned, MAX_RETURNED_STRUCTS)
               IN  result' = Returned(loc.out_folder, cleaned, Len(cleaned))
       ELSE /\ result' = Raised
            /\ UNCHANGED << fs, wrote >>
    /\ pc' = "returned"
    /\ UNCHANGED << tool, args, clock, loc, tasks, issued, acc, prev >>

\* The positions at which the request has not yet read the clock.
BeforeNaming == { "idle", "client_get", "gather", "post", "mof_query" }

\* A second of wall-clock time passes (once the request has named its folder the
\* clock is not read again).
Tick ==
    /\ pc \in BeforeNaming
    /\ clock < MaxClock
    /\ clock' = clock + 1
    /\ UNCHANGED << pc, tool, args, loc, tasks, issued, acc, fs, wrote, result, prev >>

\* ------------------------------------------------------- Bohrium: utils

BOHRIUM_BASE_OUTPUT_DIR == << << "materials_data_bohrium" >> >>

CRYSTAL_DROP_ATTRS == { "cif_file", "come_from", "material_id" }

\* tag_from_filters(..., max_len: int = 60)
BOHRIUM_TAG_MAX_LEN == 60

\* `if x:` for an optional str or list argument
Truthy(a, k) == k \in DOMAIN a /\ a[k] # << >>

\* utils.tag_from_filters of the Bohrium server
bohrium_tag_from_filters(a, max_len) ==
    LET parts ==
            (IF Truthy(a, "formula") THEN << Replace(a.formula, " ", << >>) >> ELSE << >>)
            \o (IF Truthy(a, "elements")
                THEN << Text.el \o Join(<< >>, Sorted(a.elements)) >> ELSE << >>)
            \o (IF Truthy(a, "space_symbol") THEN << Text.sg \o a.space_symbol >> ELSE << >>)
            \o (IF Truthy(a, "atom_count_range")
                THEN << Text.nat \o Join(<< "-" >>, a.atom_count_range) >> ELSE << >>)
            \o (IF Truthy(a, "predicted_formation_energy_range")
                THEN << Text.E \o Join(<< "-" >>, a.predicted_formation_energy_range) >>
                ELSE << >>)
            \o (IF Truthy(a, "band_gap_range")
                THEN << Text.Eg \o Join(<< "-" >>, a.band_gap_range) >> ELSE << >>)
        tag == Join(<< "_" >>, parts)
    IN  IF Take(tag, max_len) # << >> THEN Take(tag, max_len) ELSE Text.bohriumcrystal

\* dict(struct) with nothing deleted
CleanedKeepsAll(struct, drop) == struct

\* dict(struct) without the keys of `drop`
Cleaned(struct, drop) == [ k \in DOMAIN struct \ drop |-> struct[k] ]

\* f"bohriumcrystal_{struct_id}_{i}" of the item at position i (from 1 here, from
\* 0 in the file name)
BohriumName(struct, i) ==
    Text.bohriumcrystal \o << "_" >> \o Get(struct, "id", Text.idx \o IntToStr(i - 1))
    \o << "_" >> \o IntToStr(i - 1)

\* The items with a URL, whatever the formats asked for.
DownloadsWhateverFormats(items, output_formats) ==
    { i \in DOMAIN items : Get(items[i], "cif_file", << >>) # << >> }

\* The items whose CIF is downloaded: "cif" is asked for and the item has a URL.
Downloads(items, output_formats) ==
    { i \in DOMAIN items : "cif" \in Range(output_formats)
                           /\ Get(items[i], "cif_file", << >>) # << >> }

\* utils.save_structures_bohriumcrystal; got[i] tells whether the download of the
\* CIF of item i succeeded.  The writes are listed in the order they are done;
\* `after` is the list passed in as it is when the call returns: the keys are
\* popped from the copy dict(struct).
save_structures_bohriumcrystal(items, output_dir, output_formats, got) ==
    [ dirs |-> {},
      providers |-> << >>,
      writes  |-> Concat([ i \in DOMAIN items |->
                    (IF "json" \in Range(output_formats)
                     THEN << [ path |-> PathJoin(output_dir, BohriumName(items[i], i) \o Text.dot_json),
                               content |-> items[i] ] >>
                     ELSE << >>)
                    \o (IF i \in Downloads(items, output_formats) /\ got[i]
                        THEN << [ path |-> PathJoin(output_dir, BohriumName(items[i], i) \o Text.dot_cif),
                                  content |-> [ cif_of |-> items[i].cif_file ] ] >>
                        ELSE << >>) ]),
      cleaned |-> [ i \in DOMAIN items |-> Cleaned(items[i], CRYSTAL_DROP_ATTRS) ],
      after   |-> items ]

\* ---------------------------------------------- Bohrium: json.dumps, tool

\* json.dumps of a str and of a list of str (no character of the model needs an
\* escape)
JsonStr(s) == << "\"" >> \o s \o << "\"" >>

JsonList(l) == << "[" >> \o Join(<< ",", " " >>, [ i \in DOMAIN l |-> JsonStr(l[i]) ]) \o << "]" >>

JsonPair(key, value) == JsonStr(key) \o << ":", " " >> \o value

\* json.dumps(filters, sort_keys=True) for the filters of fetch_bohrium_crystals
BohriumFiltersJson(filters) ==
    LET pairs ==
            (IF "atomCountRange" \in DOMAIN filters
             THEN << JsonPair(Text.atomCountRange, JsonList(filters.atomCountRange)) >> ELSE << >>)
            \o (IF "band_gap_range" \in DOMAIN filters
                THEN << JsonPair(Text.band_gap_range, JsonList(filters.band_gap_range)) >> ELSE << >>)
            \o (IF "elements" \in DOMAIN filters
                THEN << JsonPair(Text.elements, JsonList(filters.elements)) >> ELSE << >>)
            \o (IF "predicted_formation_energy_range" \in DOMAIN filters
                THEN << JsonPair(Text.predicted_formation_energy_range,
                                 JsonList(filters.predicted_formation_energy_range)) >>
                ELSE << >>)
            \o (IF "space_symbol" \in DOMAIN filters
                THEN << JsonPair(Text.space_symbol, JsonStr(filters.space_symbol)) >> ELSE << >>)
    IN  << "{" >> \o Join(<< ",", " " >>, pairs) \o << "}" >>

\* Step 1 of fetch_bohrium_crystals: the filters of the payload
BohriumFilters(a) ==
    (IF Truthy(a, "elements") THEN "elements" :> a.elements ELSE << >>)
    @@ (IF Truthy(a, "space_symbol") THEN "space_symbol" :> a.space_symbol ELSE << >>)
    @@ (IF Truthy(a, "atom_count_range") THEN "atomCountRange" :> a.atom_count_range
        ELSE << >>)
    @@ (IF Truthy(a, "predicted_formation_energy_range")
        THEN "predicted_formation_energy_range" :> a.predicted_formation_energy_range
        ELSE << >>)
    @@ (IF Truthy(a, "band_gap_range") THEN "band_gap_range" :> a.band_gap_range ELSE << >>)

\* A payload that always carries the match_mode of the caller.
BohriumPayloadCallerMode(a) ==
    [ keyword |-> Get(a, "formula", << >>),
      positive_pole_key |-> BohriumFilters(a),
      match_mode |-> a.match_mode,
      size |-> a.n_results ]

\* Step 2 of fetch_bohrium_crystals: the payload of the request
BohriumPayload(a) ==
    [ keyword |-> Get(a, "formula", << >>),
      positive_pole_key |-> BohriumFilters(a),
      match_mode |-> IF Truthy(a, "formula") \/ Truthy(a, "elements") THEN a.match_mode ELSE 0,
      size |-> a.n_results ]

\* fetch_bohrium_crystals, up to requests.post.
fetch_bohrium_crystals(a) ==
    /\ pc = "idle"
    /\ tool' = "bohrium"
    /\ args' = a
    /\ loc' = [ filters |-> BohriumFilters(a), payload |-> BohriumPayload(a) ]
    /\ pc' = "post"
    /\ UNCHANGED << clock, tasks, issued, acc, fs, wrote, result, prev >>

\* requests.post and response.json() end: with an exception, or with a body of
\* the Bohrium schema holding `items`.  With items the folder is named and made.
bohrium_response(outcome) ==
    /\ pc = "post"
    /\ IF outcome.kind = "exc" \/ Len(outcome.data) = 0
       THEN /\ result' = ZeroResult
            /\ pc' = "returned"
            /\ loc' = [ filters |-> loc.filters, payload |-> loc.payload, answer |-> outcome ]
            /\ UNCHANGED << fs, wrote >>
       ELSE /\ LET filter_str == Get(args, "formula", << >>) \o Text.bar_n_results
                                 \o IntToStr(args.n_results) \o Text.bar_filters
                                 \o BohriumFiltersJson(loc.filters)
                   tag == bohrium_tag_from_filters(args, BOHRIUM_TAG_MAX_LEN)
                   ts == strftime(clock)
                   short == short_hash(filter_str)
                   name == FolderName(tag, ts, short)
                   output_dir == PathJoin(BOHRIUM_BASE_OUTPUT_DIR, name)
               IN  /\ loc' = [ filters |-> loc.filters, payload |-> loc.payload,
                               answer |-> outcome,
                               items |-> outcome.data, n_found |-> Len(outcome.data),
                               tag |-> tag, ts |-> ts, short |-> short,
                               hashed |-> filter_str, name |-> name,
                               out_folder |-> output_dir ]
                   /\ fs' = [ fs EXCEPT !.dirs = @ \cup { output_dir } ]
                   /\ wrote' = wrote \o << Mkdir(output_dir) >>
            /\ pc' = "bohrium_saving"
            /\ UNCHANGED result
    /\ UNCHANGED << tool, args, clock, tasks, issued, acc, prev >>

\* Step 4: save_structures_bohriumcrystal runs in a worker thread; which
\* downloads succeeded is kept with the locals.
bohrium_save(got) ==
    /\ pc = "bohrium_saving"
    /\ StoreRecords(save_structures_bohriumcrystal(loc.items, loc.out_folder,
                                                   args.output_formats, got),
                    [ got |-> got ])
    /\ pc' = "bohrium_manifest"
    /\ UNCHANGED << tool, args, clock, tasks, issued, result, prev >>

\* Step 5: summary.json is written and the result returned.
bohrium_finish ==
    /\ pc = "bohrium_manifest"
    /\ LET manifest == [ formula |-> Get(args, "formula", << >>),
                         filters |-> loc.filters,
                         match_mode |-> args.match_mode,
                         n_found |-> loc.n_found,
                         formats |-> args.output_formats,
                         output_dir |-> loc.out_folder ]
       IN  /\ fs' = [ fs EXCEPT !.summary = (loc.out_folder :> manifest) @@ @ ]
           /\ wrote' = wrote \o << Write(SummaryPath(loc.out_folder)) >>
           /\ result' = Returned(loc.out_folder, acc.cleaned, loc.n_found)
    /\ pc' = "returned"
    /\ UNCHANGED << tool, args, clock, loc, tasks, issued, acc, prev >>

\* --------------------------------------------------------- MOFdb: utils

MOFDB_BASE_OUTPUT_DIR == << << "materials_data_mofdb" >> >>

MOFDB_MAX_RETURNED_STRUCTS == 30

MOFDB_DROP_ATTRS ==
    { "cif", "json_repr", "isotherms", "heats", "isotherms_filtered", "heats_filtered" }

\* tag_from_filters(..., max_len: int = 40)
MOFDB_TAG_MAX_LEN == 40

\* _safe_basename(text, max_len: int = 80)
SAFE_BASENAME_MAX_LEN == 80

\* _safe_basename(ident, max_len=20) in _pick_identifier
IDENT_MAX_LEN == 20

\* mofid[:8], mofkey[:8]
ID_PREFIX_LEN == 8

\* f"{x or ''}" for an optional float: None and 0.0 give ''
FloatOrEmpty(a, k) == IF k \in DOMAIN a /\ a[k] # 0 THEN FloatToStr(a[k]) ELSE << >>

\* f"{label}{lo or ''}-{hi or ''}" when lo or hi is not None
RangePart(a, label, lo, hi) ==
    IF lo \in DOMAIN a \/ hi \in DOMAIN a
    THEN << label \o FloatOrEmpty(a, lo) \o << "-" >> \o FloatOrEmpty(a, hi) >>
    ELSE << >>

\* utils.tag_from_filters of the MOFdb server
mofdb_tag_from_filters(a, max_len) ==
    LET parts ==
            (IF Truthy(a, "mofid") THEN << Text.id \o Take(a.mofid, ID_PREFIX_LEN) >> ELSE << >>)
            \o (IF Truthy(a, "mofkey") THEN << Text.key \o Take(a.mofkey, ID_PREFIX_LEN) >>
                ELSE << >>)
            \o (IF Truthy(a, "name") THEN << Replace(a.name, " ", << "_" >>) >> ELSE << >>)
            \o (IF Truthy(a, "database") THEN << Replace(a.database, " ", << >>) >> ELSE << >>)
            \o RangePart(a, Text.vf, "vf_min", "vf_max")
            \o RangePart(a, Text.lcd, "lcd_min", "lcd_max")
            \o RangePart(a, Text.pld, "pld_min", "pld_max")
            \o RangePart(a, Text.sa_g, "sa_m2g_min", "sa_m2g_max")
            \o RangePart(a, Text.sa_cm3, "sa_m2cm3_min", "sa_m2cm3_max")
        tag == Join(<< "_" >>, SelectSeq(parts, LAMBDA p : p # << >>))
    IN  IF Take(tag, max_len) # << >> THEN Take(tag, max_len) ELSE Text.mofdb

IsSafeChar(c) == IsAlnum(c) \/ c \in { ".", "_", "-" }

\* re.sub(r"[^A-Za-z0-9._-]", "_", text), which also covers the three replace calls
KeepSafe(s) == [ i \in DOMAIN s |-> IF IsSafeChar(s[i]) THEN s[i] ELSE "_" ]

\* re.sub(r"_+", "_", text)
Collapse(s) ==
    Concat([ i \in DOMAIN s |->
               IF s[i] # "_" \/ i = 1 \/ s[i - 1] # "_" THEN << s[i] >> ELSE << >> ])

RECURSIVE LStripU(_)
LStripU(s) == IF s # << >> /\ Head(s) = "_" THEN LStripU(Tail(s)) ELSE s

RECURSIVE RStripU(_)
RStripU(s) == IF s # << >> /\ s[Len(s)] = "_" THEN RStripU(SubSeq(s, 1, Len(s) - 1)) ELSE s

\* utils._safe_basename
_safe_basename(text, max_len) ==
    LET t == Take(RStripU(LStripU(Collapse(KeepSafe(text)))), max_len)
    IN  IF t # << >> THEN t ELSE Text.mof

\* getattr(mof, k, None) or ...: the first attribute of ks that is there and not empty
RECURSIVE FirstTruthy(_, _, _)
FirstTruthy(mof, ks, default) ==
    IF ks = << >> THEN default
    ELSE IF Truthy(mof, Head(ks)) THEN mof[Head(ks)]
    ELSE FirstTruthy(mof, Tail(ks), default)

\* utils._pick_identifier (idx from 0)
_pick_identifier(mof, idx) ==
    _safe_basename(FirstTruthy(mof, << "name", "mofkey", "mofid", "id" >>,
                               Text.idx \o IntToStr(idx)), IDENT_MAX_LEN)

\* utils._provider
_provider(mof) == _safe_basename(FirstTruthy(mof, << "database" >>, Text.mofdb),
                                 SAFE_BASENAME_MAX_LEN)

\* stem of the record at position i (from 1 here, from 0 in the file name)
MofStem(mof, i) ==
    _safe_basename(_provider(mof) \o << "_" >> \o _pick_identifier(mof, i - 1)
                   \o << "_" >> \o IntToStr(i - 1), SAFE_BASENAME_MAX_LEN)

\* A JSON file that holds the cleaned record.
MofJsonCleaned(mof) ==
    Cleaned(IF "json_repr" \in DOMAIN mof THEN mof.json_repr ELSE mof, MOFDB_DROP_ATTRS)

\* What the JSON file of a record holds: json_repr when the record has one, else
\* its attributes.
MofJson(mof) == IF "json_repr" \in DOMAIN mof THEN mof.json_repr ELSE mof

\* A save_mofs that stops at the first record with a failed write.
save_mofs_stops_at_failure(items, output_dir, output_formats, failed_json, failed_cif) ==
    [ dirs |-> { output_dir },
      providers |-> << >>,
      writes  |-> Concat([ i \in { j \in DOMAIN items :
                                      \A k \in 1 .. j : k \notin failed_json \cup failed_cif } |->
                    (IF "json" \in Range(output_formats)
                     THEN << [ path |-> PathJoin(output_dir, MofStem(items[i], i) \o Text.dot_json),
                               content |-> MofJson(items[i]) ] >>
                     ELSE << >>)
                    \o (IF "cif" \in Range(output_formats) /\ Truthy(items[i], "cif")
                        THEN << [ path |-> PathJoin(output_dir, MofStem(items[i], i) \o Text.dot_cif),
                                  content |-> [ cif |-> items[i].cif ] ] >>
                        ELSE << >>) ]),
      cleaned |-> [ i \in { j \in DOMAIN items :
                              \A k \in 1 .. j : k \notin failed_json \cup failed_cif } |->
                      Cleaned(items[i], MOFDB_DROP_ATTRS) ],
      after   |-> items ]

\* utils.save_mofs; failed_json and failed_cif are the positions whose JSON and
\* CIF write fails (the failure is caught and logged, the file is not there);
\* `after` is the list passed in as it is when the call returns: the keys are
\* popped from the copy dict(mof.__dict__).
save_mofs(items, output_dir, output_formats, failed_json, failed_cif) ==
    [ dirs |-> { output_dir },
      providers |-> << >>,
      writes  |-> Concat([ i \in DOMAIN items |->
                    (IF "json" \in Range(output_formats) /\ i \notin failed_json
                     THEN << [ path |-> PathJoin(output_dir, MofStem(items[i], i) \o Text.dot_json),
                               content |-> MofJson(items[i]) ] >>
                     ELSE << >>)
                    \o (IF "cif" \in Range(output_formats) /\ Truthy(items[i], "cif")
                           /\ i \notin failed_cif
                        THEN << [ path |-> PathJoin(output_dir, MofStem(items[i], i) \o Text.dot_cif),
                                  content |-> [ cif |-> items[i].cif ] ] >>
                        ELSE << >>) ]),
      cleaned |-> [ i \in DOMAIN items |-> Cleaned(items[i], MOFDB_DROP_ATTRS) ],
      after   |-> items ]

\* ------------------------------------------------ MOFdb: json.dumps, tool

\* The keys of the filter dictionary, sorted, each with its characters.
MofFilterKeys ==
    << << "database", << "d", "a", "t", "a", "b", "a", "s", "e" >> >>,
      << "lcd_max", << "l", "c", "d", "_", "m", "a", "x" >> >>,
      << "lcd_min", << "l", "c", "d", "_", "m", "i", "n" >> >>,
      << "mofid", << "m", "o", "f", "i", "d" >> >>,
      << "mofkey", << "m", "o", "f", "k", "e", "y" >> >>,
      << "n_results", << "n", "_", "r", "e", "s", "u", "l", "t", "s" >> >>,
      << "name", << "n", "a", "m", "e" >> >>,
      << "pld_max", << "p", "l", "d", "_", "m", "a", "x" >> >>,
      << "pld_min", << "p", "l", "d", "_", "m", "i", "n" >> >>,
      << "sa_m2cm3_max", << "s", "a", "_", "m", "2", "c", "m", "3", "_", "m", "a", "x" >> >>,
      << "sa_m2cm3_min", << "s", "a", "_", "m", "2", "c", "m", "3", "_", "m", "i", "n" >> >>,
      << "sa_m2g_max", << "s", "a", "_", "m", "2", "g", "_", "m", "a", "x" >> >>,
      << "sa_m2g_min", << "s", "a", "_", "m", "2", "g", "_", "m", "i", "n" >> >>,
      << "vf_max", << "v", "f", "_", "m", "a", "x" >> >>,
      << "vf_min", << "v", "f", "_", "m", "i", "n" >> >> >>

MofStrKeys == { "mofid", "mofkey", "name", "database" }

\* json.dumps of the value of key k: null, a str, the int n_results, or a float
MofJsonValue(a, k) ==
    IF k \notin DOMAIN a THEN Text.null
    ELSE IF k \in MofStrKeys THEN JsonStr(a[k])
    ELSE IF k = "n_results" THEN IntToStr(a[k])
    ELSE FloatToStr(a[k])

\* json.dumps({...}, sort_keys=True, default=str) of Step 2 of fetch_mofs
MofFilterStr(a) ==
    << "{" >>
    \o Join(<< ",", " " >>,
            [ i \in DOMAIN MofFilterKeys |->
                JsonPair(MofFilterKeys[i][2], MofJsonValue(a, MofFilterKeys[i][1])) ])
    \o << "}" >>

\* The filters of the manifest: the arguments of the request but output_formats.
MofFilters(a) == [ k \in DOMAIN a \ { "output_formats" } |-> a[k] ]

\* fetch_mofs, up to the await of the query.
fetch_mofs(a) ==
    /\ pc = "idle"
    /\ tool' = "mofs"
    /\ args' = a
    /\ pc' = "mof_query"
    /\ UNCHANGED << clock, loc, tasks, issued, acc, fs, wrote, result, prev >>

\* Step 1 ends: an exception of the query leaves no results.  Step 2: the folder
\* is named and made.
mof_query_done(outcome) ==
    /\ pc = "mof_query"
    /\ LET results == IF outcome.kind = "exc" THEN << >> ELSE outcome.data
           filter_str == MofFilterStr(args)
           tag == mofdb_tag_from_filters(args, MOFDB_TAG_MAX_LEN)
           ts == strftime(clock)
           short == short_hash(filter_str)
           name == FolderName(tag, ts, short)
           output_dir == PathJoin(MOFDB_BASE_OUTPUT_DIR, name)
       IN  /\ loc' = [ answer |-> outcome, items |-> results,
                       tag |-> tag, ts |-> ts, short |-> short,
                       hashed |-> filter_str, name |-> name,
                       out_folder |-> output_dir ]
           /\ fs' = [ fs EXCEPT !.dirs = @ \cup { output_dir } ]
           /\ wrote' = wrote \o << Mkdir(output_dir) >>
    /\ pc' = "mof_saving"
    /\ UNCHANGED << tool, args, clock, tasks, issued, acc, result, prev >>

\* A Step 3 that hands save_mofs no more results than the tool returns.
mof_save_capped(failed_json, failed_cif) ==
    /\ pc = "mof_saving"
    /\ StoreRecords(save_mofs(Take(loc.items, MOFDB_MAX_RETURNED_STRUCTS), loc.out_folder,
                              args.output_formats, failed_json, failed_cif),
                    [ failed_json |-> failed_json, failed_cif |-> failed_cif ])
    /\ pc' = "mof_manifest"
    /\ UNCHANGED << tool, args, clock, tasks, issued, result, prev >>

\* Step 3: save_mofs runs in a worker thread; which writes failed is kept with
\* the locals.
mof_save(failed_json, failed_cif) ==
    /\ pc = "mof_saving"
    /\ StoreRecords(save_mofs(loc.items, loc.out_folder, args.output_formats,
                              failed_json, failed_cif),
                    [ failed_json |-> failed_json, failed_cif |-> failed_cif ])
    /\ pc' = "mof_manifest"
    /\ UNCHANGED << tool, args, clock, tasks, issued, result, prev >>

\* A last step that gives the zero-result default and writes no summary.json
\* when there are no results.
mof_finish_zero_default ==
    /\ pc = "mof_manifest"
    /\ LET cleaned == Truncate(acc.cleaned, MOFDB_MAX_RETURNED_STRUCTS)
           n_found == Len(cleaned)
           manifest == [ filters |-> MofFilters(args),
                         n_found |-> n_found,
                         formats |-> args.output_formats,
                         output_dir |-> loc.out_folder ]
       IN  IF loc.items = << >>
           THEN /\ result' = ZeroResult
                /\ UNCHANGED << fs, wrote >>
           ELSE /\ fs' = [ fs EXCEPT !.summary = (loc.out_folder :> manifest) @@ @ ]
                /\ wrote' = wrote \o << Write(SummaryPath(loc.out_folder)) >>
                /\ result' = [ Returned(loc.out_folder, cleaned, n_found)
                                 EXCEPT !.message = "Success" ]
    /\ pc' = "returned"
    /\ UNCHANGED << tool, args, clock, loc, tasks, issued, acc, prev >>

\* The list is cut, Step 4 writes summary.json, and the result is returned.
mof_finish ==
    /\ pc = "mof_manifest"
    /\ LET cleaned == Truncate(acc.cleaned, MOFDB_MAX_RETURNED_STRUCTS)
           n_found == Len(cleaned)
           manifest == [ filters |-> MofFilters(args),
                         n_found |-> n_found,
                         formats |-> args.output_formats,
                         output_dir |-> loc.out_folder ]
       IN  /\ fs' = [ fs EXCEPT !.summary = (loc.out_folder :> manifest) @@ @ ]
           /\ wrote' = wrote \o << Write(SummaryPath(loc.out_folder)) >>
           /\ result' = [ Returned(loc.out_folder, cleaned, n_found)
                            EXCEPT !.message = "Success" ]
    /\ pc' = "returned"
    /\ UNCHANGED << tool, args, clock, loc, tasks, issued, acc, prev >>

\* ------------------------------------------------------------ the inputs

\* The texts of the requests and of the answers, each with its characters.
Sample ==
    [ nsites2 |-> << "n", "s", "i", "t", "e", "s", "=", "2" >>,
      nsites4 |-> << "n", "s", "i", "t", "e", "s", "=", "4" >>,
      SiO3 |-> << "S", "i", "O", "3" >>,
      Si_O3 |-> << "S", "i", " ", "O", "3" >>,
      long_formula |-> << "B", "a", "0", ".", "5", "S", "r", "0", ".", "5", "C", "o", "0", ".", "8", "F", "e", "0", ".", "2", "O", "3" >>,
      Si |-> << "S", "i" >>,
      O |-> << "O" >>,
      many_elements |-> << << "B", "a" >>, << "S", "r" >>, << "C", "o" >>, << "F", "e" >>, << "O" >>, << "L", "a" >>, << "Z", "r" >>, << "L", "i" >> >>,
      C2m |-> << "C", "2", "/", "m" >>,
      Pm3m |-> << "P", "m", "-", "3", "m" >>,
      range_1_4 |-> << << "1" >>, << "4" >> >>,
      range_m2_0 |-> << << "-", "2" >>, << "0" >> >>,
      range_0_3 |-> << << "0" >>, << "3" >> >>,
      mofid |-> << "[", "Z", "n", "]", "[", "O", "]", "C", "(", "=", "O", ")", "c", "1", "c", "c", "c", " ", "M", "O", "F", "i", "d", "-", "v", "1", ".", "p", "c", "u", ".", "c", "a", "t", "0" >>,
      mofkey |-> << "Z", "n", ".", "K", "K", "E", "Y", "F", "W", "R", "C", "B", "N", "T", "P", "A", "C", ".", "M", "O", "F", "k", "e", "y", "-", "v", "1", ".", "p", "c", "u" >>,
      name |-> << "t", "o", "b", "m", "o", "f", " ", "2", "7" >>,
      database |-> << "C", "o", "R", "E", "M", "O", "F", " ", "2", "0", "1", "9" >> ]

\* {} or {k: v} for a v of S: an optional argument
Opt(k, S) == { << >> } \cup { k :> v : v \in S }

Formats == { "cif", "json" }

FilterValues == { << >>, << " " >>, Sample.nsites2, << " " >> \o Sample.nsites2 }

ProviderLists ==
    { << >>, << "alexandria" >>, << "oqmd", "alexandria", "oqmd" >>, << "mp" >>,
      << "offline", "alexandria" >> }

NResults == { 1, BigBatch }

FilterArgs ==
    { f @@ p @@ [ as_format |-> fmt, n_results |-> n ] :
        f \in Opt("filter", FilterValues),
        p \in Opt("providers", { << "alexandria" >>, << "oqmd", "alexandria", "oqmd" >>,
                                 << "nosuch" >> }),
        fmt \in Formats, n \in NResults }

SpgArgs ==
    { f @@ p @@ [ spg_number |-> 225, as_format |-> fmt, n_results |-> n ] :
        f \in Opt("base_filter", { Sample.nsites2 }),
        p \in Opt("providers", ProviderLists),
        fmt \in Formats, n \in NResults }

BandgapArgs ==
    { f @@ lo @@ hi @@ p @@ [ as_format |-> fmt, n_results |-> n ] :
        f \in Opt("base_filter", { Sample.nsites2 }),
        lo \in Opt("min_bg", { 10 }),
        hi \in Opt("max_bg", { 20 }),
        p \in Opt("providers", { << "alexandria" >>, << "mp" >> }),
        fmt \in Formats, n \in NResults }

\* Lists of output formats: the default, one format, none.
FormatLists == { << "cif", "json" >>, << "json" >>, << "cif" >>, << >> }

\* The filter arguments of the Bohrium requests.
BohriumFilterArgs ==
    { << >>,
      [ formula |-> Sample.SiO3 ],
      [ formula |-> Sample.Si_O3 ],
      [ formula |-> << >>, elements |-> << >> ],
      [ formula |-> << " " >> ],
      [ elements |-> << Sample.Si, Sample.O >> ],
      [ elements |-> << Sample.O, Sample.Si >> ],
      [ space_symbol |-> Sample.C2m ],
      [ formula |-> Sample.SiO3, space_symbol |-> Sample.Pm3m ],
      [ atom_count_range |-> Sample.range_1_4, predicted_formation_energy_range |-> Sample.range_m2_0,
        band_gap_range |-> Sample.range_0_3 ],
      [ formula |-> Sample.long_formula, elements |-> Sample.many_elements, space_symbol |-> Sample.Pm3m,
        atom_count_range |-> Sample.range_1_4, predicted_formation_energy_range |-> Sample.range_m2_0,
        band_gap_range |-> Sample.range_0_3 ] }

BohriumArgs ==
    { f @@ [ match_mode |-> m, n_results |-> n, output_formats |-> fmts ] :
        f \in BohriumFilterArgs, m \in { 0, 1 }, n \in { 1, 2 }, fmts \in FormatLists }

\* Items of a Bohrium answer: with and without id, with and without a CIF URL.
Item1 ==
    [ id |-> << "1", "0", "1" >>, formula |-> Sample.SiO3, cif_file |-> << "h", "t", "t", "p", "s", ":", "/", "/", "b", "/", "1", "0", "1", ".", "c", "i", "f" >>,
      come_from |-> << "m", "p" >>, material_id |-> << "m", "p", "-", "1", "0", "1" >>, crystal_system |-> << "c", "u", "b", "i", "c" >> ]

Item2 == [ formula |-> Sample.Si_O3, come_from |-> << "o", "q", "m", "d" >>, space_symbol |-> Sample.C2m ]

Item3 == [ id |-> << "7" >>, cif_file |-> << >>, band_gap |-> << "1", ".", "5" >> ]

BohriumItemLists ==
    { << >>, << Item1 >>, << Item2 >>, << Item3 >>, << Item1, Item2 >>, << Item1, Item1 >> }

\* What requests.post and response.json() can give for the arguments a.
BohriumOutcomes(a) ==
    { [ kind |-> "exc", data |-> << >> ] }
    \cup { [ kind |-> "ok", data |-> d ] : d \in { l \in BohriumItemLists : Len(l) <= a.n_results } }

\* The filter arguments of the MOFdb requests; the floats are in tenths.
MofFilterArgs ==
    { << >>,
      [ mofid |-> Sample.mofid ],
      [ mofkey |-> Sample.mofkey ],
      [ name |-> Sample.name ],
      [ database |-> Sample.database ],
      [ database |-> << " " >> ],
      [ vf_min |-> 0 ],
      [ vf_min |-> 5, vf_max |-> 9 ],
      [ mofid |-> Sample.mofid, mofkey |-> Sample.mofkey, name |-> Sample.name, database |-> Sample.database,
        vf_min |-> 5, vf_max |-> 9, lcd_min |-> 40, pld_max |-> 65,
        sa_m2g_min |-> 10000, sa_m2cm3_max |-> 20005 ] }

MofArgs ==
    { f @@ [ n_results |-> n, output_formats |-> fmts ] :
        f \in MofFilterArgs, n \in { 1, 2 }, fmts \in FormatLists }
    \cup { [ database |-> Sample.database, n_results |-> BigMofBatch, output_formats |-> fmts ] :
             fmts \in { << "json" >>, << >> } }

\* MOF records: with json_repr and CIF; without name, database and CIF; a small one.
Mof1 ==
    [ id |-> << "1", "1" >>, name |-> Sample.name, database |-> Sample.database, mofid |-> Sample.mofid,
      mofkey |-> Sample.mofkey, cif |-> << "d", "a", "t", "a", "_", "t", "o", "b", "m", "o", "f" >>, void_fraction |-> 5,
      json_repr |-> [ id |-> << "1", "1" >>, name |-> Sample.name, database |-> Sample.database,
                      mofid |-> Sample.mofid, mofkey |-> Sample.mofkey,
                      cif |-> << "d", "a", "t", "a", "_", "t", "o", "b", "m", "o", "f" >>,
                      void_fraction |-> 5, isotherms |-> << >>, heats |-> << >> ],
      isotherms |-> << >>, heats |-> << >> ]

Mof2 ==
    [ mofid |-> Sample.mofid, database |-> << >>, cif |-> << >>, surface_area_m2g |-> 10000,
      isotherms_filtered |-> << >>, heats_filtered |-> << >> ]

Mof3 == [ id |-> << "4", "2" >>, cif |-> << "d", "a", "t", "a", "_", "4", "2" >> ]

\* A record of a database whose name fills a whole file stem.
MofLong == [ id |-> << "7" >>, database |-> [ i \in 1 .. SAFE_BASENAME_MAX_LEN |-> "D" ] ]

MofLists ==
    { << >>, << Mof1 >>, << Mof2 >>, << Mof1, Mof2 >>, << Mof3, Mof3 >>, << MofLong, MofLong >>,
      [ i \in 1 .. BigMofBatch |-> Mof3 ] }

\* What the query of MOFdb can give for the arguments a.
MofOutcomes(a) ==
    { [ kind |-> "exc", data |-> << >> ] }
    \cup { [ kind |-> "ok", data |-> d ] : d \in { l \in MofLists : Len(l) <= a.n_results } }

\* The positions whose write may fail.
FailSpan == 1

Failures(items) == SUBSET (DOMAIN items \cap 1 .. FailSpan)

\* ------------------------------------------------------ the specification

Init ==
    /\ pc = "idle"
    /\ tool = "none"
    /\ args = << >>
    /\ clock = 0
    /\ loc = << >>
    /\ tasks = << >>
    /\ issued = [ p \in AllProviders |-> 0 ]
    /\ acc = EmptyAcc
    /\ fs = EmptyFs
    /\ wrote = << >>
    /\ result = NoResult
    /\ prev = [ served |-> FALSE ]

Next ==
    \/ \E a \in FilterArgs : fetch_structures_with_filter(a)
    \/ (pc = "client_get" /\ \E o \in ClientOutcomes(loc.order) : filter_client_get(o))
    \/ \E a \in SpgArgs : fetch_structures_with_spg(a)
    \/ \E a \in BandgapArgs : fetch_structures_with_bandgap(a)
    \/ \E p \in AllProviders : query_start(p)
    \/ \E p \in AllProviders : \E o \in ClientOutcomes(<< p >>) : query_done(p, o)
    \/ gather_done
    \/ save_begin
    \/ save_step
    \/ optimade_finish
    \/ \E a \in BohriumArgs : fetch_bohrium_crystals(a)
    \/ (pc = "post" /\ \E o \in BohriumOutcomes(args) : bohrium_response(o))
    \/ (pc = "bohrium_saving"
        /\ \E got \in [ Downloads(loc.items, args.output_formats) -> BOOLEAN ] :
              bohrium_save(got))
    \/ bohrium_finish
    \/ \E a \in MofArgs : fetch_mofs(a)
    \/ (pc = "mof_query" /\ \E o \in MofOutcomes(args) : mof_query_done(o))
    \/ (pc = "mof_saving"
        /\ \E fj \in Failures(loc.items) : \E fc \in Failures(loc.items) : mof_save(fj, fc))
    \/ mof_finish
    \/ Tick

Spec == Init /\ [][Next]_vars

\* ------------------------------------------------------------ two requests

\* The request has ended and the server takes the next one; what the ended
\* request asked for and where it wrote is kept in prev.  The file system and the
\* clock go on.
NextRequest ==
    /\ pc = "returned"
    /\ ~prev.served
    /\ prev' = [ served |-> TRUE, tool |-> tool, args |-> args,
                 named |-> "name" \in DOMAIN loc,
                 name |-> Get(loc, "name", << >>),
                 tag |-> Get(loc, "tag", << >>),
                 ts |-> Get(loc, "ts", << >>),
                 short |-> Get(loc, "short", << >>),
                 hashed |-> Get(loc, "hashed", << >>),
                 out_folder |-> result.output_dir,
                 n_files |-> Len(acc.files) ]
    /\ pc' = "idle"
    /\ tool' = "none"
    /\ args' = << >>
    /\ loc' = << >>
    /\ tasks' = << >>
    /\ issued' = [ p \in AllProviders |-> 0 ]
    /\ acc' = EmptyAcc
    /\ wrote' = << >>
    /\ result' = NoResult
    /\ UNCHANGED << clock, fs >>

\* The requests of the two-request runs: fewer arguments, small answers.
FilterArgsTwo ==
    { [ filter |-> f, providers |-> << "alexandria" >>, as_format |-> fmt, n_results |-> 1 ] :
        f \in { Sample.nsites2, << " " >> \o Sample.nsites2 }, fmt \in Formats }

ClientOutcomesTwo(ps) ==
    { [ kind |-> "exc", data |-> Stub ],
      [ kind |-> "ok", data |-> [ i \in DOMAIN ps |-> Entry(ps[i], 1) ] ] }

BohriumArgsTwo ==
    { [ elements |-> e, match_mode |-> m, n_results |-> 1, output_formats |-> fmts ] :
        e \in { << Sample.Si, Sample.O >>, << Sample.O, Sample.Si >> }, m \in { 0, 1 },
        fmts \in { << "cif", "json" >>, << "json" >> } }

BohriumOutcomesTwo == { [ kind |-> "exc", data |-> << >> ], [ kind |-> "ok", data |-> << Item1 >> ] }

MofArgsTwo ==
    { f @@ [ n_results |-> 1, output_formats |-> fmts ] :
        f \in { [ name |-> Sample.name ], [ vf_min |-> 0 ] },
        fmts \in { << "cif", "json" >>, << "cif" >> } }

MofOutcomesTwo == { [ kind |-> "exc", data |-> << >> ], [ kind |-> "ok", data |-> << Mof1 >> ] }

NextTwo ==
    \/ \E a \in FilterArgsTwo : fetch_structures_with_filter(a)
    \/ (pc = "client_get" /\ \E o \in ClientOutcomesTwo(loc.order) : filter_client_get(o))
    \/ save_begin
    \/ save_step
    \/ optimade_finish
    \/ \E a \in BohriumArgsTwo : fetch_bohrium_crystals(a)
    \/ \E o \in BohriumOutcomesTwo : bohrium_response(o)
    \/ (pc = "bohrium_saving"
        /\ bohrium_save([ i \in Downloads(loc.items, args.output_formats) |-> TRUE ]))
    \/ bohrium_finish
    \/ \E a \in MofArgsTwo : fetch_mofs(a)
    \/ \E o \in MofOutcomesTwo : mof_query_done(o)
    \/ mof_save({}, {})
    \/ mof_finish
    \/ Tick
    \/ NextRequest

SpecTwo == Init /\ [][NextTwo]_vars

\* ------------------------------------------------- fan-out, fair scheduling

\* The requests of the fair runs: the space-group and band-gap tools.
SpgArgsFair ==
    { p @@ [ spg_number |-> 225, as_format |-> "cif", n_results |-> 1 ] :
        p \in Opt("providers", { << "offline", "alexandria" >>, << "mp" >> }) }

BandgapArgsFair ==
    { [ min_bg |-> 10, providers |-> << "oqmd", "alexandria", "oqmd" >>,
        as_format |-> "json", n_results |-> 1 ] }

\* What client.get can give for provider p in the fair runs.
ClientOutcomesFair(p) ==
    { [ kind |-> "exc", data |-> Stub ], [ kind |-> "exit", data |-> Stub ],
      [ kind |-> "ok", data |-> << Entry(p, 0) >> ], [ kind |-> "ok", data |-> << Entry(p, 1) >> ] }

\* A step of the event loop or of a worker thread for the request.
RequestStep ==
    \/ \E p \in AllProviders : query_start(p)
    \/ \E p \in AllProviders : \E o \in ClientOutcomesFair(p) : query_done(p, o)
    \/ gather_done
    \/ save_begin
    \/ save_step
    \/ optimade_finish

NextFair ==
    \/ \E a \in SpgArgsFair : fetch_structures_with_spg(a)
    \/ \E a \in BandgapArgsFair : fetch_structures_with_bandgap(a)
    \/ RequestStep
    \/ Tick

\* The event loop runs every task that can run, and every client.get handed to
\* a worker thread ends (it returns or raises).
SpecFair == Init /\ [][NextFair]_vars /\ WF_vars(RequestStep)

\* ------------------------------------------------------------- the claims

FanOutTools == { "spg", "bandgap" }

OptimadeTools == { "filter", "spg", "bandgap" }

\* The fan-out of the request has been gathered.
Gathered == tool \in FanOutTools /\ "norm" \in DOMAIN loc

\* The cleaned structures that save_structures gives for the answers of the
\* providers whose query succeeded, in the order of the gather.
CleanedOfSucceeded ==
    Concat([ i \in DOMAIN loc.order |->
               IF tasks[loc.order[i]].got.kind = "ok"
               THEN save_structures(tasks[loc.order[i]].got.data, loc.out_folder,
                                    args.n_results, args.as_format = "cif").cleaned
               ELSE << >> ])

\* The files that save_structures writes for the answers of the providers whose
\* query succeeded.
FilesOfSucceeded ==
    UNION { Range(Paths(save_structures(tasks[p].got.data, loc.out_folder, args.n_results,
                                        args.as_format = "cif").writes)) :
              p \in { q \in DOMAIN tasks : tasks[q].got.kind = "ok" } }

Queried ==
    LET asked == IF "providers" \in DOMAIN args /\ args.providers # << >>
                 THEN Range(args.providers) ELSE { "alexandria", "oqmd" }
        with_clause == IF tool = "spg" THEN DOMAIN SPG_FIELDS
                       ELSE IF { "min_bg", "max_bg" } \cap DOMAIN args # {}
                            THEN DOMAIN BG_FIELDS ELSE {}
    IN  { p \in asked \cap with_clause : p \in DOMAIN URLS_FROM_PROVIDERS
                                         /\ URLS_FROM_PROVIDERS[p] # << >> }

\* C2: a provider with a clause and a URL is queried exactly once, however often
\* it is listed; any other provider is never queried; a query that has not
\* started can start whatever the state of the other queries.
C2_OneQueryPerProvider ==
    tool \in FanOutTools =>
        /\ \A p \in AllProviders : issued[p] <= (IF p \in Queried THEN 1 ELSE 0)
        /\ pc \in { "saving", "returned" } => \A p \in Queried : issued[p] = 1
        /\ pc = "gather" =>
              \A p \in DOMAIN tasks : tasks[p].st = "ready" => ENABLED query_start(p)

\* C2, its case: a provider listed twice, and the queries of two providers in
\* flight at the same time.
C2_Witness ==
    /\ tool \in FanOutTools
    /\ pc = "gather"
    /\ "providers" \in DOMAIN args
    /\ \E i, j \in DOMAIN args.providers : i # j /\ args.providers[i] = args.providers[j]
    /\ \E p, q \in DOMAIN tasks :
          p # q /\ tasks[p].st = "inflight" /\ tasks[q].st = "inflight"

\* C3: n_found is the length of the returned list, which is at most 100 for the
\* OPTIMADE tools and at most 30 for fetch_mofs.
C3_NFoundIsReturnedLength ==
    (pc = "returned" /\ result.status = "returned") =>
        /\ result.n_found = Len(result.cleaned_structures)
        /\ tool \in OptimadeTools => Len(result.cleaned_structures) <= 100
        /\ tool = "mofs" => Len(result.cleaned_structures) <= 30

\* C3, its case: more structures were saved than the cap and the list is cut.
C3_Witness ==
    /\ pc = "returned"
    /\ tool \in OptimadeTools
    /\ Len(acc.cleaned) > 100
    /\ result.n_found = 100
    /\ Len(result.cleaned_structures) = 100

\* C4 as stated: the n_found that an OPTIMADE tool returns is the number of
\* structures retrieved and saved across the providers.
C4_NFoundIsNumberSaved ==
    (pc = "returned" /\ tool \in OptimadeTools /\ result.status = "returned") =>
        result.n_found = Len(acc.cleaned)

\* C5 as stated: the n_found of summary.json is the n_found returned.
C5_ManifestNFoundIsReturned ==
    (pc = "returned" /\ result.status = "returned"
     /\ result.output_dir \in DOMAIN fs.summary) =>
        fs.summary[result.output_dir].n_found = result.n_found

\* The save function of the Bohrium or MOFdb request has returned.
RecordsSaved ==
    /\ tool \in { "bohrium", "mofs" }
    /\ pc \in { "bohrium_manifest", "mof_manifest", "returned" }
    /\ "items" \in DOMAIN loc

Named == "name" \in DOMAIN loc

\* The arguments of a request without its output format(s).
FilterArguments(a) == [ k \in DOMAIN a \ { "output_formats", "as_format" } |-> a[k] ]

\* C7: the folder name is <tag>_<timestamp>_<hash> with a hash of 8 hexadecimal
\* digits; two requests of a tool with equal filter arguments and timestamps of
\* the same second have the same name; two requests with the same filter string
\* have the same hash, whatever their output formats.
C7_FolderNameIsDeterministic ==
    /\ Named =>
          /\ loc.name = loc.tag \o << "_" >> \o loc.ts \o << "_" >> \o loc.short
          /\ Len(loc.short) = 8
          /\ Range(loc.short) \subseteq Range(HexDigits)
    /\ (Named /\ prev.served /\ prev.named) =>
          /\ (prev.tool = tool /\ FilterArguments(prev.args) = FilterArguments(args)
              /\ prev.ts = loc.ts) => prev.name = loc.name
          /\ prev.hashed = loc.hashed => prev.short = loc.short

\* C7, its case: two requests of the same second with equal filter arguments and
\* different output formats.
C7_Witness ==
    /\ Named
    /\ prev.served
    /\ prev.named
    /\ prev.tool = tool
    /\ prev.args # args
    /\ FilterArguments(prev.args) = FilterArguments(args)
    /\ prev.ts = loc.ts
    /\ prev.name = loc.name

\* C8 as stated: the tag of the Bohrium tag_from_filters holds no path separator
\* and the output directory is a direct child of the base output directory.
C8_BohriumTagIsSafe ==
    (tool = "bohrium" /\ Named) =>
        /\ "/" \notin Range(loc.tag)
        /\ Len(loc.out_folder) = Len(BOHRIUM_BASE_OUTPUT_DIR) + 1

\* C9 as stated: no two requests write into the same output directory.
C9_OutputDirsAreUnique ==
    (prev.served /\ prev.out_folder # EmptyPath /\ pc = "returned"
     /\ result.output_dir # EmptyPath) =>
        prev.out_folder # result.output_dir

\* The backend of the request failed, or Bohrium returned no items.
BackendGaveNothing ==
    /\ tool \in { "bohrium", "filter" }
    /\ "answer" \in DOMAIN loc
    /\ \/ loc.answer.kind \in { "exc", "exit" }
       \/ (tool = "bohrium" /\ Len(loc.answer.data) = 0)

Selected ==
    IF "providers" \in DOMAIN args /\ args.providers # << >>
    THEN Range(args.providers) ELSE { "alexandria", "oqmd" }

\* The request has nothing to query: the filter tool without a filter, with an
\* empty one or with blanks alone; the space-group or band-gap tool with no
\* selected provider that has a clause of the tool.
NothingToQuery ==
    \/ /\ tool = "filter"
       /\ "filter" \in DOMAIN args => \A i \in DOMAIN args.filter : args.filter[i] = " "
    \/ /\ tool = "spg"
       /\ Selected \cap DOMAIN SPG_FIELDS = {}
    \/ /\ tool = "bandgap"
       /\ \/ Selected \cap DOMAIN BG_FIELDS = {}
          \/ { "min_bg", "max_bg" } \cap DOMAIN args = {}

\* C11: a request with nothing to query has returned the zero-result default as
\* soon as it was made: no provider request was started, no directory and no
\* file was created.
C11_NothingToQueryGivesZeroResult ==
    NothingToQuery =>
        /\ pc = "returned"
        /\ result.status = "returned"
        /\ result.n_found = 0
        /\ result.cleaned_structures = << >>
        /\ result.output_dir = << >>
        /\ "answer" \notin DOMAIN loc
        /\ DOMAIN tasks = {}
        /\ \A p \in AllProviders : issued[p] = 0
        /\ wrote = << >>
        /\ fs = [ dirs |-> {}, files |-> << >>, summary |-> << >> ]

\* C11, its case: the space-group tool was asked for a provider without a
\* space-group clause and has returned.
C11_Witness ==
    /\ tool = "spg"
    /\ "providers" \in DOMAIN args
    /\ args.providers = << "mp" >>
    /\ NothingToQuery
    /\ pc = "returned"


\* The path of the JSON file (ext ".json") or CIF file (ext ".cif") of the
\* record at position i of the request.
RecordPath(i, ext) ==
    PathJoin(loc.out_folder,
             (IF tool = "bohrium" THEN BohriumName(loc.items[i], i)
              ELSE MofStem(loc.items[i], i)) \o ext)

\* The record at position i has a CIF URL (Bohrium) or CIF content (MOFdb).
HasCif(i) ==
    IF tool = "bohrium"
    THEN "cif_file" \in DOMAIN loc.items[i] /\ loc.items[i].cif_file # << >>
    ELSE "cif" \in DOMAIN loc.items[i] /\ loc.items[i].cif # << >>

\* C12: the record files that save_structures_bohriumcrystal and save_mofs
\* leave are .json files of records when "json" is among the output formats and
\* .cif files of records with a CIF when "cif" is; with no output format there
\* is no record file, and the cleaned list still has every record.
C12_FilesOnlyOfRequestedFormats ==
    RecordsSaved =>
        /\ DOMAIN fs.files \subseteq
              { RecordPath(i, Text.dot_json) :
                  i \in { j \in DOMAIN loc.items : "json" \in Range(args.output_formats) } }
              \cup { RecordPath(i, Text.dot_cif) :
                       i \in { j \in DOMAIN loc.items :
                                 "cif" \in Range(args.output_formats) /\ HasCif(j) } }
        /\ Range(acc.files) = DOMAIN fs.files
        /\ args.output_formats = << >> => DOMAIN fs.files = {}
        /\ Len(acc.cleaned) = Len(loc.items)

\* C12, its case: records with a CIF were saved with no output format.
C12_Witness ==
    /\ RecordsSaved
    /\ args.output_formats = << >>
    /\ Len(loc.items) = 2
    /\ HasCif(1)
    /\ DOMAIN fs.files = {}
    /\ Len(acc.cleaned) = 2


\* The request has reached its save step: its output folder is named.
ReachedSave == "out_folder" \in DOMAIN loc

\* The positions of the log of the request at which summary.json is written.
SummaryWrites ==
    { i \in DOMAIN wrote : wrote[i] = [ op |-> "write",
                                        path |-> loc.out_folder \o << << "summary.json" >> >> ] }

\* C13: in a request that reaches the save step a file is written only into a
\* directory made earlier in the request, the first thing made being the output
\* directory; summary.json is written at most once, exactly once when the
\* request has returned, and nothing is written after it: every record file of
\* the request was written before.
C13_DirThenRecordsThenSummary ==
    ReachedSave =>
        /\ \A i \in DOMAIN wrote :
              wrote[i].op = "write" =>
                  \E j \in 1 .. i - 1 :
                      /\ wrote[j].op = "mkdir"
                      /\ wrote[j].path = SubSeq(wrote[i].path, 1, Len(wrote[i].path) - 1)
        /\ wrote # << >> => wrote[1] = [ op |-> "mkdir", path |-> loc.out_folder ]
        /\ Cardinality(SummaryWrites) = (IF pc = "returned" THEN 1 ELSE 0)
        /\ SummaryWrites \subseteq { Len(wrote) }
        /\ pc = "returned" =>
              /\ result.output_dir = loc.out_folder
              /\ Range(acc.files) =
                    { wrote[i].path : i \in { j \in 1 .. Len(wrote) - 1 : wrote[j].op = "write" } }
              /\ loc.out_folder \in DOMAIN fs.summary

\* C13, its case: a MOFdb request made its directory, wrote two record files and
\* then summary.json.
C13_Witness ==
    /\ ReachedSave
    /\ tool = "mofs"
    /\ pc = "returned"
    /\ Len(acc.files) = 2
    /\ wrote[1].op = "mkdir"
    /\ wrote[Len(wrote)].path = loc.out_folder \o << << "summary.json" >> >>


\* A str argument that is missing, empty or made of blanks alone.
BlankOrMissing(a, k) == k \in DOMAIN a => \A i \in DOMAIN a[k] : a[k][i] = " "

\* The arguments of the request give nothing to summarise.  Bohrium: no
\* elements, space group or range, and a formula that is blank or missing.
\* MOFdb: no mofid, mofkey or name, no bound of a range (a bound of 0 counts as
\* given), and a database that is blank or missing.
SummaryIsEmpty ==
    IF tool = "bohrium"
    THEN /\ BlankOrMissing(args, "formula")
         /\ \A k \in { "elements", "space_symbol", "atom_count_range",
                       "predicted_formation_energy_range", "band_gap_range" } :
               k \in DOMAIN args => args[k] = << >>
    ELSE /\ BlankOrMissing(args, "database")
         /\ \A k \in { "mofid", "mofkey", "name" } : k \in DOMAIN args => args[k] = << >>
         /\ DOMAIN args \subseteq { "mofid", "mofkey", "name", "database", "n_results",
                                    "output_formats" }

IsPermutation(a, b) ==
    /\ Len(a) = Len(b)
    /\ \A x \in Range(a) \cup Range(b) :
          Cardinality({ i \in DOMAIN a : a[i] = x }) = Cardinality({ i \in DOMAIN b : b[i] = x })

\* The arguments of tag_from_filters other than the elements.
TagArgumentsButElements(a) ==
    [ k \in DOMAIN a \cap { "formula", "space_symbol", "atom_count_range",
                            "predicted_formation_energy_range", "band_gap_range" } |-> a[k] ]

\* C15: two Bohrium requests whose element lists are permutations of each
\* other, the other arguments of tag_from_filters being equal, get the same tag.
C15_TagIgnoresElementOrder ==
    (tool = "bohrium" /\ Named /\ prev.served /\ prev.named /\ prev.tool = "bohrium"
     /\ "elements" \in DOMAIN args /\ "elements" \in DOMAIN prev.args
     /\ IsPermutation(prev.args.elements, args.elements)
     /\ TagArgumentsButElements(prev.args) = TagArgumentsButElements(args)) =>
        prev.tag = loc.tag

\* C15, its case: two Bohrium requests with the same elements in different
\* orders have both named their folders.
C15_Witness ==
    /\ tool = "bohrium"
    /\ Named
    /\ prev.served
    /\ prev.named
    /\ prev.tool = "bohrium"
    /\ prev.args.elements # args.elements
    /\ IsPermutation(prev.args.elements, args.elements)
    /\ prev.tag = loc.tag
    /\ prev.short # loc.short


\* The request gives a formula that is not empty or a list of elements that is
\* not empty.
FormulaOrElementsGiven ==
    \/ "formula" \in DOMAIN args /\ Len(args.formula) > 0
    \/ "elements" \in DOMAIN args /\ Len(args.elements) > 0

\* C16: the match_mode of the payload of fetch_bohrium_crystals is that of the
\* caller when a formula or elements are given, and 0 otherwise.
C16_MatchModeOnlyForFormulaOrElements ==
    (tool = "bohrium" /\ "payload" \in DOMAIN loc) =>
        loc.payload.match_mode = (IF FormulaOrElementsGiven THEN args.match_mode ELSE 0)

\* C16, its case: the caller asked for match_mode 1 with a space group alone and
\* the payload was sent with match_mode 0.
C16_Witness ==
    /\ tool = "bohrium"
    /\ pc = "returned"
    /\ "answer" \in DOMAIN loc
    /\ args.match_mode = 1
    /\ "space_symbol" \in DOMAIN args
    /\ ~FormulaOrElementsGiven
    /\ loc.payload.match_mode = 0


\* C17 as stated: the filters of the summary.json of fetch_bohrium_crystals are
\* the positive_pole_key of the payload, with a key exactly for each argument
\* that is not empty, and its match_mode is the match_mode of the payload.
C17_ManifestRecordsAppliedFilters ==
    (tool = "bohrium" /\ pc = "returned" /\ result.output_dir \in DOMAIN fs.summary) =>
        LET manifest == fs.summary[result.output_dir]
            given(k) == k \in DOMAIN args /\ args[k] # << >>
        IN  /\ manifest.filters = loc.payload.positive_pole_key
            /\ "elements" \in DOMAIN manifest.filters <=> given("elements")
            /\ "space_symbol" \in DOMAIN manifest.filters <=> given("space_symbol")
            /\ "atomCountRange" \in DOMAIN manifest.filters <=> given("atom_count_range")
            /\ "predicted_formation_energy_range" \in DOMAIN manifest.filters
                  <=> given("predicted_formation_energy_range")
            /\ "band_gap_range" \in DOMAIN manifest.filters <=> given("band_gap_range")
            /\ manifest.match_mode = loc.payload.match_mode


\* The query of the MOFdb request ended with an exception.
MofQueryFailed == tool = "mofs" /\ "answer" \in DOMAIN loc /\ loc.answer.kind = "exc"

\* C18: after an exception of the MOFdb query fetch_mofs goes on with an empty
\* result list: it does not raise, the output directory is made, and when it
\* has returned summary.json is written with n_found 0 and the result has
\* n_found 0, no cleaned structure, code 0 and the message "Success".
C18_MofQueryFailureStillSucceeds ==
    MofQueryFailed =>
        /\ result.status # "raised"
        /\ loc.items = << >>
        /\ loc.out_folder \in fs.dirs
        /\ pc \in { "mof_saving", "mof_manifest", "returned" }
        /\ pc = "returned" =>
              /\ result.status = "returned"
              /\ result.output_dir = loc.out_folder
              /\ loc.out_folder \in DOMAIN fs.summary
              /\ fs.summary[loc.out_folder].n_found = 0
              /\ DOMAIN fs.files = {}
              /\ result.n_found = 0
              /\ result.cleaned_structures = << >>
              /\ result.code = 0
              /\ result.message = "Success"

\* C18, its case: the query failed and fetch_mofs has returned.
C18_Witness ==
    /\ MofQueryFailed
    /\ pc = "returned"
    /\ result.message = "Success"
    /\ wrote = << [ op |-> "mkdir", path |-> loc.out_folder ],
                  [ op |-> "mkdir", path |-> loc.out_folder ],
                  [ op |-> "write", path |-> loc.out_folder \o << << "summary.json" >> >> ] >>


\* The positions of the request whose JSON file failed, and those whose CIF file
\* failed or had no URL to download from.
JsonFailed == IF tool = "mofs" THEN loc.failed_json ELSE {}

CifFailed ==
    IF tool = "mofs" THEN loc.failed_cif
    ELSE { i \in DOMAIN loc.items : ~HasCif(i) \/ (i \in DOMAIN loc.got /\ ~loc.got[i]) }

\* C19: a record whose CIF or JSON file failed does not end the save: the call
\* does not raise, the files of every other record are written as if nothing
\* had failed, and the cleaned list has every record, the failed one included.
C19_SavingGoesOnAfterFailure ==
    RecordsSaved =>
        /\ result.status # "raised"
        /\ pc = "returned" => result.status = "returned"
        /\ Len(acc.cleaned) = Len(loc.items)
        /\ \A i \in DOMAIN loc.items :
              /\ DOMAIN acc.cleaned[i] \subseteq DOMAIN loc.items[i]
              /\ \A k \in DOMAIN acc.cleaned[i] : acc.cleaned[i][k] = loc.items[i][k]
              /\ ("json" \in Range(args.output_formats) /\ i \notin JsonFailed)
                    => RecordPath(i, Text.dot_json) \in DOMAIN fs.files
              /\ ("cif" \in Range(args.output_formats) /\ HasCif(i) /\ i \notin CifFailed)
                    => RecordPath(i, Text.dot_cif) \in DOMAIN fs.files

\* C19, its case: the JSON write of the first of two MOF records failed, the
\* file of the second is there, and both records are in the cleaned list.
C19_Witness ==
    /\ RecordsSaved
    /\ tool = "mofs"
    /\ Len(loc.items) = 2
    /\ "json" \in Range(args.output_formats)
    /\ 1 \in loc.failed_json
    /\ RecordPath(1, Text.dot_json) \notin DOMAIN fs.files
    /\ RecordPath(2, Text.dot_json) \in DOMAIN fs.files
    /\ Len(acc.cleaned) = 2


\* The records handed to the save function of the request, as they were before
\* the call: those of the answer of the backend.
RecordsBefore == IF loc.answer.kind = "ok" THEN loc.answer.data ELSE << >>

\* What is serialised for the JSON file of a record: the record itself, for
\* MOFdb its json_repr when it has one.
Serialised(record) ==
    IF tool = "mofs" /\ "json_repr" \in DOMAIN record THEN record.json_repr ELSE record

SavedOfProvider(i) ==
    LET got == tasks[loc.order[i]].got
    IN  save_structures(IF got.kind = "ok" THEN got.data ELSE << >>,
                        loc.out_folder, args.n_results, args.as_format = "cif")

\* The normalised results have one entry per provider of the filter map, in the
\* order of the map, and the files and the providers seen of the request and of
\* its manifest are those of the providers in that order.
CollectedInMapOrder ==
    /\ Len(loc.norm) = Len(loc.order)
    /\ Range(loc.order) = DOMAIN loc.filters
    /\ Len(loc.order) = Cardinality(DOMAIN loc.filters)
    /\ \A i \in DOMAIN loc.order :
          loc.norm[i] = (IF tasks[loc.order[i]].got.kind = "ok"
                         THEN tasks[loc.order[i]].got.data ELSE << >>)
    /\ pc = "returned" =>
          /\ acc.files = Concat([ i \in DOMAIN loc.order |-> Paths(SavedOfProvider(i).writes) ])
          /\ acc.providers = Concat([ i \in DOMAIN loc.order |-> SavedOfProvider(i).providers ])
          /\ fs.summary[loc.out_folder].files = acc.files
          /\ fs.summary[loc.out_folder].providers_seen = acc.providers

\* C21 as stated: whatever the order in which the queries ended, the results are
\* collected in the order of the filter map, and the cleaned_structures returned
\* are the concatenation of the cleaned structures of the providers.
C21_ReturnedIsConcatenation ==
    Gathered =>
        /\ CollectedInMapOrder
        /\ pc = "returned" =>
              result.cleaned_structures =
                  Concat([ i \in DOMAIN loc.order |-> SavedOfProvider(i).cleaned ])

\* C21, amended: whatever the order in which the queries ended, the results are
\* collected in the order of the filter map, and the cleaned_structures returned
\* are the first 100 of the concatenation of the cleaned structures of the
\* providers.
C21_ReturnedIsConcatenationCutToCap ==
    Gathered =>
        /\ CollectedInMapOrder
        /\ pc = "returned" =>
              result.cleaned_structures =
                  SubSeq(Concat([ i \in DOMAIN loc.order |-> SavedOfProvider(i).cleaned ]), 1,
                         IF Len(acc.cleaned) < 100 THEN Len(acc.cleaned) ELSE 100)

\* C21, its case: the query of the second provider of the map ended first, both
\* gave structures, and the request has returned the structures of the first
\* provider before those of the second.
C21_Witness ==
    /\ Gathered
    /\ pc = "returned"
    /\ Len(loc.order) = 2
    /\ tasks[loc.order[1]].rank = 2
    /\ tasks[loc.order[2]].rank = 1
    /\ tasks[loc.order[1]].got.kind = "ok"
    /\ tasks[loc.order[2]].got.kind = "ok"
    /\ Len(result.cleaned_structures) = 2
    /\ result.cleaned_structures[1].provider = loc.order[1]
    /\ result.cleaned_structures[2].provider = loc.order[2]


\* C22: in the space-group and band-gap tools a save_structures call runs, and
\* anything is written, only when every provider query of the request has
\* ended, and at most one save_structures call of the request runs at a time.
C22_SavesAfterGatherOneAtATime ==
    tool \in FanOutTools =>
        /\ (wrote # << >> \/ fs # [ dirs |-> {}, files |-> << >>, summary |-> << >> ]
            \/ ("running" \in DOMAIN loc /\ loc.running > 0)) =>
              \A p \in DOMAIN tasks : tasks[p].st = "done"
        /\ "running" \in DOMAIN loc => loc.running \in { 0, 1 }
        /\ pc = "returned" /\ "running" \in DOMAIN loc => loc.running = 0

\* C22, its case: both providers answered, the structures of the first are
\* saved and the save_structures call for the second is running.
C22_Witness ==
    /\ tool \in FanOutTools
    /\ pc = "saving"
    /\ Len(loc.norm) = 2
    /\ \A p \in DOMAIN tasks : tasks[p].got.kind = "ok"
    /\ acc.idx = 2
    /\ loc.running = 1
    /\ acc.files # << >>


\* C23: under fair scheduling a call of the space-group or band-gap tool returns
\* a result to its caller, with the query of every provider that has a clause
\* and a URL made and ended, whichever providers failed.
C23_FanOutReturns ==
    (tool \in FanOutTools)
        ~> (/\ pc = "returned"
            /\ result.status = "returned"
            /\ \A p \in DOMAIN tasks : tasks[p].st = "done"
            /\ \A p \in Queried : issued[p] = 1)

\* C23, its case: the query that ended first failed, the query of the other
\* provider was made after that, ended with structures, and the call returned
\* them.
C23_Witness ==
    /\ tool \in FanOutTools
    /\ pc = "returned"
    /\ result.status = "returned"
    /\ \E p, q \in DOMAIN tasks :
          /\ tasks[p].got.kind \in { "exc", "exit" }
          /\ tasks[p].rank = 1
          /\ tasks[q].got.kind = "ok"
          /\ tasks[q].rank = 2
    /\ result.n_found = 1


\* C24 as stated: in one call of save_structures_bohriumcrystal or save_mofs
\* records at different positions have different file stems, so that no file
\* of the call is written twice.
C24_StemsAreDistinct ==
    RecordsSaved =>
        /\ \A i, j \in DOMAIN loc.items :
              i # j => RecordPath(i, << >>) # RecordPath(j, << >>)
        /\ \A m, n \in DOMAIN acc.files : m # n => acc.files[m] # acc.files[n]


\* C25: fetch_mofs hands every fetched result to save_mofs, whose record files
\* are written whatever their number, and returns at most 30: the number of
\* records saved is at least the n_found returned, and equal to it exactly when
\* at most 30 results were fetched.
C25_SavedAtLeastReturned ==
    (tool = "mofs" /\ pc = "returned") =>
        /\ Len(acc.cleaned) = Len(RecordsBefore)
        /\ Len(acc.cleaned) >= result.n_found
        /\ Len(acc.cleaned) = result.n_found <=> Len(RecordsBefore) <= 30
        /\ \A i \in DOMAIN RecordsBefore :
              ("json" \in Range(args.output_formats) /\ i \notin loc.failed_json)
                  => RecordPath(i, Text.dot_json) \in DOMAIN fs.files

\* C25, its case: 31 results were fetched and saved, the file of the last one
\* is there, and 30 are returned.
C25_Witness ==
    /\ tool = "mofs"
    /\ pc = "returned"
    /\ Len(RecordsBefore) = 31
    /\ Len(acc.cleaned) = 31
    /\ RecordPath(31, Text.dot_json) \in DOMAIN fs.files
    /\ result.n_found = 30
    /\ Len(result.cleaned_structures) = 30

====
